---- MODULE Spec2Model ----
(***************************************************************************)
(* Category tree of the catalog backend: the Category model               *)
(* (products/models.py) and the dashboard entry points that write it      *)
(* (products/views.py).  Strings are sequences of one-character strings.  *)
(***************************************************************************)
EXTENDS Integers, Sequences, FiniteSets, TLC

VARIABLES cats, products, nextPk, nextProductPk, response,
          brands, variants, nextBrandPk, nextVariantPk, requests,
          reviews, addresses

vars == <<cats, products, nextPk, nextProductPk, response,
          brands, variants, nextBrandPk, nextVariantPk, requests,
          reviews, addresses>>

\* the review and address tables, which no catalog request writes
accountVars == <<reviews, addresses>>

\* the brand and variant tables, which no category request writes
brandVars == <<brands, nextBrandPk>>
variantVars == <<variants, nextVariantPk>>

\* ------------------------------------------------------------------ bounds
MaxCats == 2
MaxProducts == 1
\* categories ever created under SpecTree, whose requests all carry one name
MaxTreeCats == 4

\* categories ever created under SpecRoundTrip
MaxRoundTripCats == 3

\* rows in the category, brand and product tables together under SpecSlug
MaxSlugRows == 3

\* rows of one table in an initial store of SpecAlloc
MaxAllocRows == 3

\* requests of one behaviour of SpecConc, which may all be in flight at once,
\* and categories in the table they start on
MaxRequests == 2
MaxConcCats == 3

\* categories in the table SpecToggle starts on
MaxToggleCats == 2

\* categories ever created in SpecGuard, and rows ever created in each of its
\* other tables (brands, products, variants)
MaxGuardCats == 2
MaxGuardRows == 1

\* categories ever created in SpecLookup
MaxLookupCats == 2

\* root categories, and categories below the first root, in an initial table
\* of SpecMenu
MaxMenuRoots == 13
MaxMenuDepth == 2

\* prices and sale prices of SpecPrice, in hundredths (DecimalField with two
\* decimal places); no validator keeps a price above zero, so prices go down
\* to MaxBelowZero hundredths below it
MaxBelowZero == 1
MaxPrice == 9

\* products that are reviewed and users that review them in SpecRating
MaxRatedProducts == 2
MaxReviewers == 2

\* variants in the table the requests of SpecSku start on
MaxSkuRows == 2

\* users, and addresses ever created, in SpecAddress and SpecAddressConc
MaxUsers == 2
MaxAddresses == 3

\* categories in the table the request of SpecCascade starts on
MaxCascadeCats == 4

\* names a request may carry in its "name" field
NameInputs == {<<"A">>, <<"a">>}
TreeNameInputs == {<<"A">>}
SlugNameInputs == {<<"A">>, <<"B">>}
ConcNameInputs == {<<"A">>, <<"!">>}

Electronics == <<"E", "l", "e", "c", "t", "r", "o", "n", "i", "c", "s">>
Mobiles == <<"M", "o", "b", "i", "l", "e", "s">>
Smartphones == <<"S", "m", "a", "r", "t", "p", "h", "o", "n", "e", "s">>
Phones == <<"P", "h", "o", "n", "e", "s">>
RoundTripNames == {Electronics, Mobiles, Smartphones, Phones}

\* parent = NULL
NoParent == 0

\* ------------------------------------------------------------ text helpers
UpperChars == <<"A", "B", "C", "D", "E", "F", "G", "H", "I", "J", "K", "L", "M",
                "N", "O", "P", "Q", "R", "S", "T", "U", "V", "W", "X", "Y", "Z">>
LowerChars == <<"a", "b", "c", "d", "e", "f", "g", "h", "i", "j", "k", "l", "m",
                "n", "o", "p", "q", "r", "s", "t", "u", "v", "w", "x", "y", "z">>

Lower(ch) ==
    IF \E i \in DOMAIN UpperChars : UpperChars[i] = ch
    THEN LowerChars[CHOOSE i \in DOMAIN UpperChars : UpperChars[i] = ch]
    ELSE ch

IsWordChar(ch) ==
    \/ \E i \in DOMAIN UpperChars : ch = UpperChars[i] \/ ch = LowerChars[i]
    \/ ch \in {"0", "1", "2", "3", "4", "5", "6", "7", "8", "9", "_", "-"}

RECURSIVE LowerStr(_)
LowerStr(s) == IF s = <<>> THEN <<>> ELSE <<Lower(Head(s))>> \o LowerStr(Tail(s))

\* django.utils.text.slugify on the model's alphabet: lower-case, drop every
\* character that is not a word character or a hyphen.
RECURSIVE slugify(_)
slugify(s) ==
    IF s = <<>> THEN <<>>
    ELSE (IF IsWordChar(Head(s)) THEN <<Lower(Head(s))>> ELSE <<>>) \o slugify(Tail(s))

DigitChars == <<"0", "1", "2", "3", "4", "5", "6", "7", "8", "9">>

\* str(counter) of the f-string f"{base}-{counter}"
RECURSIVE Str(_)
Str(n) == IF n < 10 THEN <<DigitChars[n + 1]>> ELSE Str(n \div 10) \o <<DigitChars[(n % 10) + 1]>>

\* ------------------------------------------------------------- tree queries
\* children related manager: rows whose parent is p
Children(store, p) == {k \in DOMAIN store : store[k].parent = p}

\* MPTT get_descendants(include_self=False) as a set
RECURSIVE DescSet(_, _, _)
DescSet(store, frontier, seen) ==
    LET next == {k \in DOMAIN store : store[k].parent \in frontier} \ seen
    IN IF next = {} THEN seen ELSE DescSet(store, next, seen \cup next)

get_descendants(store, p, include_self) ==
    DescSet(store, {p}, {}) \cup (IF include_self THEN {p} ELSE {})

\* ascending sequence of a finite set of integers
RECURSIVE SortedSeq(_)
SortedSeq(S) ==
    IF S = {} THEN <<>>
    ELSE LET m == CHOOSE x \in S : \A y \in S : x <= y
         IN <<m>> \o SortedSeq(S \ {m})

\* queryset order of get_descendants(): the tree manager orders by (tree_id,
\* lft), a pre-order walk in which every node comes after its parent.
RECURSIVE PreOrder(_, _, _)
PreOrder(store, todo, depth) ==
    IF todo = <<>> \/ depth = 0 THEN <<>>
    ELSE <<Head(todo)>>
         \o PreOrder(store, SortedSeq(Children(store, Head(todo))), depth - 1)
         \o PreOrder(store, Tail(todo), depth)

\* mutation: the loop walks get_children() instead of get_descendants()
ChildrenInOrder(store, p) == SortedSeq(Children(store, p))

RECURSIVE Reverse(_)
Reverse(q) == IF q = <<>> THEN <<>> ELSE Reverse(Tail(q)) \o <<Head(q)>>

\* mutation: the descendants are visited deepest first
DescendantsDeepestFirst(store, p) ==
    Reverse(PreOrder(store, SortedSeq(Children(store, p)), Cardinality(DOMAIN store)))

DescendantsInOrder(store, p) ==
    PreOrder(store, SortedSeq(Children(store, p)), Cardinality(DOMAIN store))

\* --------------------------------------------------------------- the store
\* mutation: path is not declared unique
ConstraintsOkWithoutPath(store) ==
    \A j, k \in DOMAIN store :
        (j # k /\ store[j].parent # NoParent /\ store[j].parent = store[k].parent)
            => store[j].name # store[k].name

\* unique=True on path (models.py:64-70) and the UniqueConstraint on
\* (parent, name) (models.py:80-85).  The database compares names exactly and
\* treats NULL parents as distinct, so root rows never collide on the second.
ConstraintsOk(store) ==
    /\ \A j, k \in DOMAIN store : j # k => store[j].path # store[k].path
    /\ \A j, k \in DOMAIN store :
          (j # k /\ store[j].parent # NoParent /\ store[j].parent = store[k].parent)
              => store[j].name # store[k].name

Ok(store, inst) == [ok |-> TRUE, err |-> "", store |-> store, inst |-> inst]
Fail(store, inst, err) == [ok |-> FALSE, err |-> err, store |-> store, inst |-> inst]

Row(inst) == [name |-> inst.name, slug |-> inst.slug, parent |-> inst.parent,
              path |-> inst.path, is_active |-> inst.is_active]

\* the values of the columns named in update_fields overwrite the row
Merge(row, inst, fields) ==
    [name      |-> IF "name" \in fields THEN inst.name ELSE row.name,
     slug      |-> IF "slug" \in fields THEN inst.slug ELSE row.slug,
     parent    |-> IF "parent" \in fields THEN inst.parent ELSE row.parent,
     path      |-> IF "path" \in fields THEN inst.path ELSE row.path,
     is_active |-> IF "is_active" \in fields THEN inst.is_active ELSE row.is_active]

AllFields == {"name", "slug", "parent", "path", "is_active"}

\* mutation: the tree move accepts any target
MpttSaveAnyTarget(store, inst, fields, newPk) ==
    LET i2 == IF inst.pk = 0 THEN [inst EXCEPT !.pk = newPk] ELSE inst
        s2 == IF inst.pk = 0 THEN (newPk :> Row(i2)) @@ store
              ELSE [store EXCEPT ![inst.pk] = Merge(@, inst, fields)]
    IN IF ConstraintsOk(s2) THEN Ok(s2, i2) ELSE Fail(store, inst, "IntegrityError")

\* MPTTModel.save, reached through super().save(...) in Category.save: an
\* instance without pk is inserted; an existing one whose parent changed is
\* moved in the tree, which raises InvalidMove when the target is the node
\* itself or one of its descendants; then the row is written.
\* The move is decided on the tree fields the instance and its target carry in
\* memory (loaded), the row is written to the table as it is now (store).
MpttSaveOn(loaded, store, inst, fields, newPk) ==
    IF inst.pk = 0
    THEN LET i2 == [inst EXCEPT !.pk = newPk]
             s2 == (newPk :> Row(i2)) @@ store
         IN IF ConstraintsOk(s2) THEN Ok(s2, i2) ELSE Fail(store, inst, "IntegrityError")
    ELSE IF /\ "parent" \in fields
            /\ inst.parent # loaded[inst.pk].parent
            /\ inst.parent \in get_descendants(loaded, inst.pk, TRUE)
         THEN Fail(store, inst, "InvalidMove")
         ELSE LET s2 == [store EXCEPT ![inst.pk] = Merge(@, inst, fields)]
              IN IF ConstraintsOk(s2) THEN Ok(s2, inst) ELSE Fail(store, inst, "IntegrityError")

\* within one request that nothing interleaves with, what was loaded is the
\* table
MpttSave(store, inst, fields, newPk) == MpttSaveOn(store, store, inst, fields, newPk)

\* ------------------------------------------------------------ Category model
\* the while loop of _generate_unique_slug
RECURSIVE SlugLoop(_, _, _, _, _)
SlugLoop(store, inst, base, slug, counter) ==
    IF \E k \in DOMAIN store :
          k # inst.pk /\ store[k].slug = slug /\ store[k].parent = inst.parent
    THEN SlugLoop(store, inst, base, base \o <<"-">> \o Str(counter), counter + 1)
    ELSE slug

\* mutation: the slug is derived from the name on every save
RegenerateSlug(store, inst) ==
    [inst EXCEPT !.slug = SlugLoop(store, inst, slugify(inst.name), slugify(inst.name), 1)]

_generate_unique_slug(store, inst) ==
    IF inst.slug # <<>> THEN inst
    ELSE [inst EXCEPT !.slug = SlugLoop(store, inst, slugify(inst.name), slugify(inst.name), 1)]

_build_path(store, inst) ==
    IF inst.parent # NoParent
    THEN store[inst.parent].path \o <<"/">> \o inst.slug
    ELSE inst.slug

Instance(store, pk) == [pk |-> pk] @@ store[pk]

\* Category.save and the loop over get_descendants() inside it.  The result
\* carries the store as it is when save returns or raises.
RECURSIVE save(_, _, _, _)
RECURSIVE CascadeLoop(_, _, _)

CascadeLoop(store, snapshot, todo) ==
    IF todo = <<>> THEN Ok(store, <<>>)
    ELSE LET child == Instance(snapshot, Head(todo))
             r == save(store, [child EXCEPT !.path = _build_path(store, child)], {"path"}, 0)
         IN IF r.ok THEN CascadeLoop(r.store, snapshot, Tail(todo)) ELSE r

save(store, inst, fields, newPk) ==
    LET i1 == _generate_unique_slug(store, inst)
        r1 == MpttSave(store, i1, fields, newPk)
    IN IF ~r1.ok THEN r1
       ELSE LET new_path == _build_path(r1.store, r1.inst)
            IN IF r1.inst.path = new_path THEN r1
               ELSE LET r2 == MpttSave(r1.store, [r1.inst EXCEPT !.path = new_path], {"path"}, 0)
                    IN IF ~r2.ok THEN r2
                       ELSE LET r3 == CascadeLoop(r2.store, r2.store,
                                                  DescendantsInOrder(r2.store, r2.inst.pk))
                            IN IF r3.ok THEN Ok(r3.store, r2.inst) ELSE r3

\* Category.clean
clean(store, inst) ==
    ~(inst.pk # 0 /\ inst.parent # NoParent
        /\ inst.pk \in get_descendants(store, inst.parent, TRUE))

\* validate_constraints of the model form on unique_category_name_per_parent:
\* skipped when parent is NULL, otherwise an exact match on (parent, name)
\* among the other rows.
validate_constraints(store, inst) ==
    inst.parent = NoParent
    \/ ~\E k \in DOMAIN store :
           k # inst.pk /\ store[k].parent = inst.parent /\ store[k].name = inst.name

\* ------------------------------------------------------------ view helpers
\* reverse accessor from each model to Product: Product.category declares no
\* related_name (so it is product_set), Product.brand declares "products".
ReverseAccessor(kind) == IF kind = "brand" THEN "products" ELSE "product_set"

\* has_products(obj): hasattr(obj, "products") and obj.products.exists()
has_products(prods, kind, pk) ==
    /\ ReverseAccessor(kind) = "products"
    /\ \E p \in DOMAIN prods : prods[p][kind] = pk

\* mutation: the is_active filter on children is missing
HasChildren(store, pk) == Children(store, pk) # {}

\* category.children.filter(is_active=True).exists()
HasActiveChildren(store, pk) == \E k \in Children(store, pk) : store[k].is_active

\* rows the deletion collector gathers along parent (on_delete=CASCADE)
Collected(store, pk) == get_descendants(store, pk, TRUE)

\* Product.category is on_delete=PROTECT: the collector raises ProtectedError
Protected(prods, pks) == \E p \in DOMAIN prods : prods[p].category \in pks

\* how a request ends: "ok", "invalid" (the form is shown again with its
\* errors), "refused" (a guard answered with a message) or "error" (an
\* exception left the handler, err names it); store is the committed store
\* afterwards
Outcome(store, result) == [store |-> store, result |-> result, err |-> ""]
Raised(store, err) == [store |-> store, result |-> "error", err |-> err]

\* ------------------------------------------------------------ entry points
\* CategoryCreateView: model form validation, then form_valid (atomic)
CategoryCreateView(store, newPk, name, parent, is_active) ==
    LET inst == [pk |-> 0, name |-> name, slug |-> <<>>, parent |-> parent,
                 path |-> <<>>, is_active |-> is_active]
    IN IF ~(clean(store, inst) /\ validate_constraints(store, inst))
       THEN Outcome(store, "invalid")
       ELSE LET r == save(store, inst, AllFields, newPk)
            IN IF r.ok THEN Outcome(r.store, "ok") ELSE Raised(store, r.err)

\* CategoryUpdateView: the posted name, parent and is_active replace the
\* instance's, the model form validates, form_valid saves (atomic)
CategoryUpdateView(store, c, name, parent, is_active) ==
    LET inst == [Instance(store, c) EXCEPT !.name = name, !.parent = parent,
                                           !.is_active = is_active]
    IN IF ~(clean(store, inst) /\ validate_constraints(store, inst))
       THEN Outcome(store, "invalid")
       ELSE LET r == save(store, inst, AllFields, 0)
            IN IF r.ok THEN Outcome(r.store, "ok") ELSE Raised(store, r.err)

\* toggle_field(obj, "is_active")
toggle_field(store, c) ==
    save(store, [Instance(store, c) EXCEPT !.is_active = ~@], {"is_active"}, 0)

\* toggle_category_status (no transaction around the save)
toggle_category_status(store, c) ==
    LET r == toggle_field(store, c)
    IN IF r.ok THEN Outcome(r.store, "ok") ELSE Raised(r.store, r.err)

soft_delete_category(store, prods, c) ==
    IF HasActiveChildren(store, c) THEN Outcome(store, "refused")
    ELSE IF has_products(prods, "category", c) THEN Outcome(store, "refused")
    ELSE LET r == save(store, [Instance(store, c) EXCEPT !.is_active = FALSE],
                       {"is_active"}, 0)
         IN IF r.ok THEN Outcome(r.store, "ok") ELSE Raised(r.store, r.err)

\* Model.delete reached through super().delete(): the collector follows the
\* CASCADE on parent and stops on a PROTECT reference
DeleteCascade(store, prods, c) ==
    IF Protected(prods, Collected(store, c)) THEN Raised(store, "ProtectedError")
    ELSE Outcome([k \in DOMAIN store \ Collected(store, c) |-> store[k]], "ok")

\* CategoryDeleteView.delete (atomic)
CategoryDeleteView(store, prods, c) ==
    IF store[c].is_active THEN Outcome(store, "refused")
    ELSE IF HasActiveChildren(store, c) \/ has_products(prods, "category", c)
    THEN Outcome(store, "refused")
    ELSE DeleteCascade(store, prods, c)

\* ------------------------------------------------------------- Brand model
\* no brand (Product.brand is nullable)
NoBrand == 0

BrandRow(inst) == [name |-> inst.name, slug |-> inst.slug, is_active |-> inst.is_active]

BrandMerge(row, inst, fields) ==
    [name      |-> IF "name" \in fields THEN inst.name ELSE row.name,
     slug      |-> IF "slug" \in fields THEN inst.slug ELSE row.slug,
     is_active |-> IF "is_active" \in fields THEN inst.is_active ELSE row.is_active]

BrandFields == {"name", "slug", "is_active"}

\* unique=True on Brand.name and Brand.slug
BrandConstraintsOk(store) ==
    \A j, k \in DOMAIN store :
        j # k => store[j].name # store[k].name /\ store[j].slug # store[k].slug

\* mutation: the loop does not exclude the instance's own row
RECURSIVE BrandSlugLoopCountingSelf(_, _, _, _, _)
BrandSlugLoopCountingSelf(store, inst, base, slug, counter) ==
    IF \E k \in DOMAIN store : store[k].slug = slug
    THEN BrandSlugLoopCountingSelf(store, inst, base, base \o <<"-">> \o Str(counter),
                                   counter + 1)
    ELSE slug

\* the while loop of Brand.save
RECURSIVE BrandSlugLoop(_, _, _, _, _)
BrandSlugLoop(store, inst, base, slug, counter) ==
    IF \E k \in DOMAIN store : k # inst.pk /\ store[k].slug = slug
    THEN BrandSlugLoop(store, inst, base, base \o <<"-">> \o Str(counter), counter + 1)
    ELSE slug

\* Brand.save: the slug is allocated when it is empty, then Model.save inserts
\* the row or writes the columns named in update_fields
BrandSave(store, inst, fields, newPk) ==
    LET i1 == IF inst.slug # <<>> THEN inst
              ELSE [inst EXCEPT !.slug =
                       BrandSlugLoop(store, inst, slugify(inst.name), slugify(inst.name), 1)]
        i2 == IF inst.pk = 0 THEN [i1 EXCEPT !.pk = newPk] ELSE i1
        s2 == IF inst.pk = 0 THEN (newPk :> BrandRow(i2)) @@ store
              ELSE [store EXCEPT ![inst.pk] = BrandMerge(@, i2, fields)]
    IN IF BrandConstraintsOk(s2) THEN Ok(s2, i2) ELSE Fail(store, inst, "IntegrityError")

\* validate_unique of the model form (and the serializer's UniqueValidator) on
\* Brand.name; slug is not a form field and is not validated
BrandNameFree(store, inst) ==
    ~\E k \in DOMAIN store : k # inst.pk /\ store[k].name = inst.name

\* BrandCreateView: form validation, then form_valid (atomic)
BrandCreateView(store, newPk, name, is_active) ==
    LET inst == [pk |-> 0, name |-> name, slug |-> <<>>, is_active |-> is_active]
    IN IF ~BrandNameFree(store, inst) THEN Outcome(store, "invalid")
       ELSE LET r == BrandSave(store, inst, BrandFields, newPk)
            IN IF r.ok THEN Outcome(r.store, "ok") ELSE Raised(store, r.err)

\* BrandUpdateView
BrandUpdateView(store, b, name, is_active) ==
    LET inst == [([pk |-> b] @@ store[b]) EXCEPT !.name = name, !.is_active = is_active]
    IN IF ~BrandNameFree(store, inst) THEN Outcome(store, "invalid")
       ELSE LET r == BrandSave(store, inst, BrandFields, 0)
            IN IF r.ok THEN Outcome(r.store, "ok") ELSE Raised(store, r.err)

\* BrandCreateAPIView and BrandUpdateAPIView: BrandCreateUpdateSerializer
\* validates the same fields and saves the instance
BrandCreateAPIView(store, newPk, name, is_active) ==
    LET inst == [pk |-> 0, name |-> name, slug |-> <<>>, is_active |-> is_active]
    IN IF ~BrandNameFree(store, inst) THEN Outcome(store, "invalid")
       ELSE LET r == BrandSave(store, inst, BrandFields, newPk)
            IN IF r.ok THEN Outcome(r.store, "ok") ELSE Raised(store, r.err)

BrandUpdateAPIView(store, b, name, is_active) ==
    LET inst == [([pk |-> b] @@ store[b]) EXCEPT !.name = name, !.is_active = is_active]
    IN IF ~BrandNameFree(store, inst) THEN Outcome(store, "invalid")
       ELSE LET r == BrandSave(store, inst, BrandFields, 0)
            IN IF r.ok THEN Outcome(r.store, "ok") ELSE Raised(store, r.err)

\* toggle_brand_status: toggle_field(brand, "is_active")
toggle_brand_status(store, b) ==
    LET r == BrandSave(store, [([pk |-> b] @@ store[b]) EXCEPT !.is_active = ~@],
                       {"is_active"}, 0)
    IN IF r.ok THEN Outcome(r.store, "ok") ELSE Raised(r.store, r.err)

soft_delete_brand(store, prods, b) ==
    IF has_products(prods, "brand", b) THEN Outcome(store, "refused")
    ELSE LET r == BrandSave(store, [([pk |-> b] @@ store[b]) EXCEPT !.is_active = FALSE],
                            {"is_active"}, 0)
         IN IF r.ok THEN Outcome(r.store, "ok") ELSE Raised(r.store, r.err)

\* Model.delete of a brand: Product.brand is on_delete=PROTECT
BrandDeleteRow(store, prods, b) ==
    IF \E p \in DOMAIN prods : prods[p].brand = b THEN Raised(store, "ProtectedError")
    ELSE Outcome([k \in DOMAIN store \ {b} |-> store[k]], "ok")

\* BrandDeleteView.delete (atomic)
BrandDeleteView(store, prods, b) ==
    IF store[b].is_active THEN Outcome(store, "refused")
    ELSE IF has_products(prods, "brand", b) THEN Outcome(store, "refused")
    ELSE BrandDeleteRow(store, prods, b)

\* BrandDeleteAPIView: DestroyAPIView deletes the instance it looked up
BrandDeleteAPIView(store, prods, b) == BrandDeleteRow(store, prods, b)

\* ----------------------------------------------- Product and ProductVariant
ProductRow(inst) ==
    [name |-> inst.name, slug |-> inst.slug, category |-> inst.category,
     brand |-> inst.brand, is_active |-> inst.is_active]

ProductMerge(row, inst, fields) ==
    [name      |-> IF "name" \in fields THEN inst.name ELSE row.name,
     slug      |-> IF "slug" \in fields THEN inst.slug ELSE row.slug,
     category  |-> IF "category" \in fields THEN inst.category ELSE row.category,
     brand     |-> IF "brand" \in fields THEN inst.brand ELSE row.brand,
     is_active |-> IF "is_active" \in fields THEN inst.is_active ELSE row.is_active]

ProductFields == {"name", "slug", "category", "brand", "is_active"}

\* unique=True on Product.slug
ProductConstraintsOk(store) ==
    \A j, k \in DOMAIN store : j # k => store[j].slug # store[k].slug

\* the while loop of Product.save
RECURSIVE ProductSlugLoop(_, _, _, _, _)
ProductSlugLoop(store, inst, base, slug, i) ==
    IF \E k \in DOMAIN store : k # inst.pk /\ store[k].slug = slug
    THEN ProductSlugLoop(store, inst, base, base \o <<"-">> \o Str(i), i + 1)
    ELSE slug

\* Product.save
ProductSave(store, inst, fields, newPk) ==
    LET i1 == IF inst.slug # <<>> THEN inst
              ELSE [inst EXCEPT !.slug =
                       ProductSlugLoop(store, inst, slugify(inst.name), slugify(inst.name), 1)]
        i2 == IF inst.pk = 0 THEN [i1 EXCEPT !.pk = newPk] ELSE i1
        s2 == IF inst.pk = 0 THEN (newPk :> ProductRow(i2)) @@ store
              ELSE [store EXCEPT ![inst.pk] = ProductMerge(@, i2, fields)]
    IN IF ProductConstraintsOk(s2) THEN Ok(s2, i2) ELSE Fail(store, inst, "IntegrityError")

\* ProductCreateView: category is required and brand optional, both chosen
\* among the stored rows; form_valid saves (atomic)
ProductCreateView(store, newPk, name, category, brand, is_active) ==
    LET inst == [pk |-> 0, name |-> name, slug |-> <<>>, category |-> category,
                 brand |-> brand, is_active |-> is_active]
        r == ProductSave(store, inst, ProductFields, newPk)
    IN IF r.ok THEN Outcome(r.store, "ok") ELSE Raised(store, r.err)

\* ProductUpdateView
ProductUpdateView(store, p, name, category, brand, is_active) ==
    LET inst == [([pk |-> p] @@ store[p]) EXCEPT !.name = name, !.category = category,
                                                  !.brand = brand, !.is_active = is_active]
        r == ProductSave(store, inst, ProductFields, 0)
    IN IF r.ok THEN Outcome(r.store, "ok") ELSE Raised(store, r.err)

\* ProductCreateAPIView and ProductUpdateAPIView (ProductCreateUpdateSerializer)
ProductCreateAPIView(store, newPk, name, category, brand, is_active) ==
    LET inst == [pk |-> 0, name |-> name, slug |-> <<>>, category |-> category,
                 brand |-> brand, is_active |-> is_active]
        r == ProductSave(store, inst, ProductFields, newPk)
    IN IF r.ok THEN Outcome(r.store, "ok") ELSE Raised(store, r.err)

ProductUpdateAPIView(store, p, name, category, brand, is_active) ==
    LET inst == [([pk |-> p] @@ store[p]) EXCEPT !.name = name, !.category = category,
                                                  !.brand = brand, !.is_active = is_active]
        r == ProductSave(store, inst, ProductFields, 0)
    IN IF r.ok THEN Outcome(r.store, "ok") ELSE Raised(store, r.err)

\* toggle_product_status: toggle_field(product, "is_active")
toggle_product_status(store, p) ==
    LET r == ProductSave(store, [([pk |-> p] @@ store[p]) EXCEPT !.is_active = ~@],
                         {"is_active"}, 0)
    IN IF r.ok THEN Outcome(r.store, "ok") ELSE Raised(r.store, r.err)

\* product.variants.filter(is_active=True).exists()
HasActiveVariants(vars_, p) ==
    \E v \in DOMAIN vars_ : vars_[v].product = p /\ vars_[v].is_active

\* the product and variant tables as one store
Tables(prods, vars_) == [products |-> prods, variants |-> vars_]

\* Model.delete of a product: ProductVariant.product is on_delete=CASCADE
ProductDeleteRow(prods, vars_, p) ==
    Outcome(Tables([k \in DOMAIN prods \ {p} |-> prods[k]],
                   [v \in {w \in DOMAIN vars_ : vars_[w].product # p} |-> vars_[v]]),
            "ok")

\* mutation: the rows are deleted before the guard on active variants refuses
ProductDeleteRefusingLate(prods, vars_, p) ==
    IF prods[p].is_active THEN Outcome(Tables(prods, vars_), "refused")
    ELSE IF HasActiveVariants(vars_, p)
         THEN [ProductDeleteRow(prods, vars_, p) EXCEPT !.result = "refused"]
    ELSE ProductDeleteRow(prods, vars_, p)

\* ProductDeleteView.delete (atomic)
ProductDeleteView(prods, vars_, p) ==
    IF prods[p].is_active THEN Outcome(Tables(prods, vars_), "refused")
    ELSE IF HasActiveVariants(vars_, p) THEN Outcome(Tables(prods, vars_), "refused")
    ELSE ProductDeleteRow(prods, vars_, p)

\* ProductDeleteAPIView: DestroyAPIView deletes the instance it looked up
ProductDeleteAPIView(prods, vars_, p) == ProductDeleteRow(prods, vars_, p)

\* ProductVariantCreateView: a variant of product p (every variant carries its
\* own sku and a valid price)
ProductVariantCreateView(vars_, newPk, p, is_active) ==
    Outcome((newPk :> [product |-> p, is_active |-> is_active]) @@ vars_, "ok")

\* ProductVariantUpdateView
ProductVariantUpdateView(vars_, v, is_active) ==
    Outcome([vars_ EXCEPT ![v].is_active = is_active], "ok")

\* toggle_variant_status
toggle_variant_status(vars_, v) ==
    Outcome([vars_ EXCEPT ![v].is_active = ~@], "ok")

\* ProductVariantDeleteView.delete (atomic): the refusal redirects to
\* get_success_url(), which reads self.object; delete() has not set it, so the
\* refused request ends in an AttributeError
ProductVariantDeleteView(vars_, v) ==
    IF vars_[v].is_active THEN Raised(vars_, "AttributeError")
    ELSE Outcome([k \in DOMAIN vars_ \ {v} |-> vars_[k]], "ok")

\* ------------------------------------------------------------------ actions
\* the last request, how it ended, whether it changed the store and the
\* exception that left the handler, if one did
\* a response without a body
NoBody == <<>>

Response(op, result, changed) ==
    [op |-> op, result |-> result, changed |-> changed, err |-> "", body |-> NoBody]

\* ------------------------------------------------------ requests in flight
\* A request in flight: pc is where its handler stands ("save" before the row
\* is written, "path" before the path is compared, "cascade" inside the loop
\* over the descendants, "commit" at the end of the handler, "idle" before
\* the request arrives and "done" once it has answered), inst the instance it holds in memory, loaded the table as
\* its queries before the save saw it, writes the rows its open transaction
\* has written, found the descendants its get_descendants() query returned
\* and todo those the loop has not saved yet, result and err how it answered.
Requests == 1..MaxRequests

NoInstance == [pk |-> 0, name |-> <<>>, slug |-> <<>>, parent |-> NoParent,
               path |-> <<>>, is_active |-> FALSE]

IdleRequest == [pc |-> "idle", kind |-> "none", inst |-> NoInstance, loaded |-> <<>>,
                writes |-> <<>>, found |-> <<>>, todo |-> <<>>,
                result |-> "none", err |-> ""]

\* a request that has answered keeps what it held in memory
Answered(q, result, err) ==
    [q EXCEPT !.pc = "done", !.writes = <<>>, !.todo = <<>>,
              !.result = result, !.err = err]

\* mutation: no handler opens a transaction
NoAtomicBlock(kind) == FALSE

\* form_valid of CategoryCreateView and of CategoryUpdateView are decorated
\* with transaction.atomic
InAtomicBlock(kind) == kind \in {"create", "update"}

\* READ COMMITTED: a statement of request t sees the committed rows and the
\* rows its own transaction wrote
View(t) == requests[t].writes @@ cats

\* two rows the unique indexes (path; parent and name) do not admit together
Collide(r1, r2) ==
    \/ r1.path = r2.path
    \/ r1.parent # NoParent /\ r1.parent = r2.parent /\ r1.name = r2.name

\* writing the rows W, request t has to wait for the open transaction of
\* request u: that one wrote one of the rows (row lock), or wrote a row whose
\* old or new version collides with one of W in a unique index
WaitsOn(t, u, W) ==
    /\ u # t
    /\ \E pk \in DOMAIN W :
          \/ pk \in DOMAIN requests[u].writes
          \/ \E k \in DOMAIN requests[u].writes \ {pk} :
                \/ Collide(W[pk], requests[u].writes[k])
                \/ k \in DOMAIN cats /\ Collide(W[pk], cats[k])

WaitsFor(t, W) == \E u \in Requests : WaitsOn(t, u, W)

\* the rows W a step wrote take effect: inside the open transaction when the
\* handler runs in an atomic block, in the table at once (autocommit) when not
Effect(t, W, q) ==
    IF InAtomicBlock(q.kind)
    THEN /\ requests' = [requests EXCEPT ![t] = [q EXCEPT !.writes = W @@ @]]
         /\ cats' = cats
    ELSE /\ requests' = [requests EXCEPT ![t] = q]
         /\ cats' = W @@ cats

\* an exception leaves the handler: the atomic block, if there is one, rolls
\* its writes back, and the request answers with the error
Abort(t, q, err) ==
    /\ requests' = [requests EXCEPT ![t] = Answered(q, "error", err)]
    /\ cats' = cats

Init ==
    /\ requests = [t \in Requests |-> IdleRequest]
    /\ reviews = <<>>
    /\ addresses = <<>>
    /\ cats = <<>>
    /\ products = <<>>
    /\ nextPk = 1
    /\ nextProductPk = 1
    /\ response = Response("none", "ok", FALSE)
    /\ brands = <<>>
    /\ variants = <<>>
    /\ nextBrandPk = 1
    /\ nextVariantPk = 1

Parents == {NoParent} \cup DOMAIN cats

\* a request on the category store commits its outcome; under Spec the
\* response it ended with is recorded
Commit(op, h) ==
    /\ cats' = h.store
    /\ nextPk' = IF op = "create" /\ h.result = "ok" THEN nextPk + 1 ELSE nextPk
    /\ response' = [Response(op, h.result, h.store # cats) EXCEPT !.err = h.err]
    /\ UNCHANGED <<accountVars, requests, products, nextProductPk, brandVars, variantVars>>

CategoryCreate(name, parent, a) ==
    Commit("create", CategoryCreateView(cats, nextPk, name, parent, a))

CategoryUpdate(c, name, parent, a) ==
    Commit("update", CategoryUpdateView(cats, c, name, parent, a))

ToggleCategoryStatus(c) == Commit("toggle", toggle_category_status(cats, c))

SoftDeleteCategory(c) == Commit("soft_delete", soft_delete_category(cats, products, c))

CategoryDelete(c) == Commit("hard_delete", CategoryDeleteView(cats, products, c))

\* ProductCreateView: an active product named "A" without brand in category c
ProductCreate(c) ==
    /\ products' = ProductCreateView(products, nextProductPk, <<"A">>, c, NoBrand, TRUE).store
    /\ nextProductPk' = nextProductPk + 1
    /\ response' = Response("product_create", "ok", TRUE)
    /\ UNCHANGED <<accountVars, requests, cats, nextPk, brandVars, variantVars>>

Next ==
    \/ \E name \in NameInputs, parent \in Parents, a \in BOOLEAN :
          nextPk <= MaxCats /\ CategoryCreate(name, parent, a)
    \/ \E c \in DOMAIN cats, name \in NameInputs, parent \in Parents, a \in BOOLEAN :
          CategoryUpdate(c, name, parent, a)
    \/ \E c \in DOMAIN cats : ToggleCategoryStatus(c)
    \/ \E c \in DOMAIN cats : SoftDeleteCategory(c)
    \/ \E c \in DOMAIN cats : CategoryDelete(c)
    \/ \E c \in DOMAIN cats : nextProductPk <= MaxProducts /\ ProductCreate(c)

Spec == Init /\ [][Next]_vars

\* The category entry points alone, on a store of up to MaxTreeCats categories
\* that all carry one name; responses are not recorded.
CommitTree(op, h) ==
    /\ cats' = h.store
    /\ nextPk' = IF op = "create" /\ h.result = "ok" THEN nextPk + 1 ELSE nextPk
    /\ UNCHANGED <<accountVars, requests, products, nextProductPk, response, brandVars, variantVars>>

TreeCreate(name, parent, a) ==
    CommitTree("create", CategoryCreateView(cats, nextPk, name, parent, a))

TreeUpdate(c, name, parent, a) ==
    CommitTree("update", CategoryUpdateView(cats, c, name, parent, a))

TreeToggle(c) == CommitTree("toggle", toggle_category_status(cats, c))

TreeSoftDelete(c) == CommitTree("soft_delete", soft_delete_category(cats, products, c))

TreeDelete(c) == CommitTree("hard_delete", CategoryDeleteView(cats, products, c))

NextTree ==
    \/ \E name \in TreeNameInputs, parent \in Parents, a \in BOOLEAN :
          nextPk <= MaxTreeCats /\ TreeCreate(name, parent, a)
    \/ \E c \in DOMAIN cats, name \in TreeNameInputs, parent \in Parents, a \in BOOLEAN :
          TreeUpdate(c, name, parent, a)
    \/ \E c \in DOMAIN cats : TreeToggle(c)
    \/ \E c \in DOMAIN cats : TreeSoftDelete(c)
    \/ \E c \in DOMAIN cats : TreeDelete(c)

SpecTree == Init /\ [][NextTree]_vars

\* Create and rename requests carrying the names of the documented round trip
\* (Electronics > Mobiles > Smartphones, Mobiles renamed to Phones); every
\* category is active and a rename posts the parent the category already has.
NextRoundTrip ==
    \/ \E name \in RoundTripNames, parent \in Parents :
          nextPk <= MaxRoundTripCats /\ CategoryCreate(name, parent, TRUE)
    \/ \E c \in DOMAIN cats, name \in RoundTripNames :
          CategoryUpdate(c, name, cats[c].parent, cats[c].is_active)

SpecRoundTrip == Init /\ [][NextRoundTrip]_vars

\* ---------------------------------------------------------- catalog actions
\* a request on the brand, product and variant tables; rec tells whether the
\* specification records the response it ended with
Recorded(rec, op, h, changed) ==
    IF rec THEN [Response(op, h.result, changed) EXCEPT !.err = h.err] ELSE response

BrandCommit(rec, op, created, h) ==
    /\ brands' = h.store
    /\ nextBrandPk' = IF created /\ h.result = "ok" THEN nextBrandPk + 1 ELSE nextBrandPk
    /\ response' = Recorded(rec, op, h, h.store # brands)
    /\ UNCHANGED <<accountVars, requests, cats, nextPk, products, nextProductPk, variantVars>>

BrandCreate(rec, name, a) ==
    BrandCommit(rec, "brand_create", TRUE, BrandCreateView(brands, nextBrandPk, name, a))

BrandCreateAPI(rec, name, a) ==
    BrandCommit(rec, "api_brand_create", TRUE,
                BrandCreateAPIView(brands, nextBrandPk, name, a))

BrandUpdate(rec, b, name, a) ==
    BrandCommit(rec, "brand_update", FALSE, BrandUpdateView(brands, b, name, a))

\* the REST routes look the brand up by its slug (<slug:slug>)
BrandUpdateAPI(rec, b, name, a) ==
    /\ brands[b].slug # <<>>
    /\ BrandCommit(rec, "api_brand_update", FALSE, BrandUpdateAPIView(brands, b, name, a))

ToggleBrandStatus(rec, b) ==
    BrandCommit(rec, "brand_toggle", FALSE, toggle_brand_status(brands, b))

SoftDeleteBrand(rec, b) ==
    BrandCommit(rec, "brand_soft_delete", FALSE, soft_delete_brand(brands, products, b))

BrandDelete(rec, b) ==
    BrandCommit(rec, "brand_hard_delete", FALSE, BrandDeleteView(brands, products, b))

BrandDeleteAPI(rec, b) ==
    /\ brands[b].slug # <<>>
    /\ BrandCommit(rec, "api_brand_delete", FALSE, BrandDeleteAPIView(brands, products, b))

\* a request that writes the product table alone
ProductCommit(rec, op, created, h) ==
    /\ products' = h.store
    /\ nextProductPk' = IF created /\ h.result = "ok" THEN nextProductPk + 1
                                                        ELSE nextProductPk
    /\ response' = Recorded(rec, op, h, h.store # products)
    /\ UNCHANGED <<accountVars, requests, cats, nextPk, brandVars, variantVars>>

ProductCreateForm(rec, name, c, b, a) ==
    ProductCommit(rec, "product_create", TRUE,
                  ProductCreateView(products, nextProductPk, name, c, b, a))

ProductCreateAPI(rec, name, c, b, a) ==
    ProductCommit(rec, "api_product_create", TRUE,
                  ProductCreateAPIView(products, nextProductPk, name, c, b, a))

\* the dashboard and REST routes look the product up by its slug
ProductUpdate(rec, p, name, c, b, a) ==
    /\ products[p].slug # <<>>
    /\ ProductCommit(rec, "product_update", FALSE,
                     ProductUpdateView(products, p, name, c, b, a))

ProductUpdateAPI(rec, p, name, c, b, a) ==
    /\ products[p].slug # <<>>
    /\ ProductCommit(rec, "api_product_update", FALSE,
                     ProductUpdateAPIView(products, p, name, c, b, a))

ToggleProductStatus(rec, p) ==
    ProductCommit(rec, "product_toggle", FALSE, toggle_product_status(products, p))

\* a delete request writes the product table and, by cascade, the variants
ProductDeleteCommit(rec, op, h) ==
    /\ products' = h.store.products
    /\ variants' = h.store.variants
    /\ response' = Recorded(rec, op, h, h.store # Tables(products, variants))
    /\ UNCHANGED <<accountVars, requests, cats, nextPk, nextProductPk, brandVars, nextVariantPk>>

ProductDelete(rec, p) ==
    /\ products[p].slug # <<>>
    /\ ProductDeleteCommit(rec, "product_hard_delete",
                           ProductDeleteView(products, variants, p))

ProductDeleteAPI(rec, p) ==
    /\ products[p].slug # <<>>
    /\ ProductDeleteCommit(rec, "api_product_delete",
                           ProductDeleteAPIView(products, variants, p))

VariantCommit(rec, op, created, h) ==
    /\ variants' = h.store
    /\ nextVariantPk' = IF created /\ h.result = "ok" THEN nextVariantPk + 1
                                                        ELSE nextVariantPk
    /\ response' = Recorded(rec, op, h, h.store # variants)
    /\ UNCHANGED <<accountVars, requests, cats, nextPk, products, nextProductPk, brandVars>>

VariantCreate(rec, p, a) ==
    /\ products[p].slug # <<>>
    /\ VariantCommit(rec, "variant_create", TRUE,
                     ProductVariantCreateView(variants, nextVariantPk, p, a))

VariantUpdate(rec, v, a) ==
    VariantCommit(rec, "variant_update", FALSE, ProductVariantUpdateView(variants, v, a))

ToggleVariantStatus(rec, v) ==
    VariantCommit(rec, "variant_toggle", FALSE, toggle_variant_status(variants, v))

VariantDelete(rec, v) ==
    VariantCommit(rec, "variant_hard_delete", FALSE, ProductVariantDeleteView(variants, v))

\* Creations, updates and toggles of categories, brands and products through
\* the dashboard and the REST API, on a store of at most MaxSlugRows rows.
SlugRows ==
    Cardinality(DOMAIN cats) + Cardinality(DOMAIN brands) + Cardinality(DOMAIN products)

BrandChoices == {NoBrand} \cup DOMAIN brands

NextSlug ==
    \/ \E name \in SlugNameInputs, parent \in Parents, a \in BOOLEAN :
          SlugRows < MaxSlugRows /\ TreeCreate(name, parent, a)
    \/ \E c \in DOMAIN cats, name \in SlugNameInputs, parent \in Parents, a \in BOOLEAN :
          TreeUpdate(c, name, parent, a)
    \/ \E c \in DOMAIN cats : TreeToggle(c)
    \/ \E name \in SlugNameInputs, a \in BOOLEAN :
          SlugRows < MaxSlugRows /\ BrandCreate(FALSE, name, a)
    \/ \E name \in SlugNameInputs, a \in BOOLEAN :
          SlugRows < MaxSlugRows /\ BrandCreateAPI(FALSE, name, a)
    \/ \E b \in DOMAIN brands, name \in SlugNameInputs, a \in BOOLEAN :
          BrandUpdate(FALSE, b, name, a)
    \/ \E b \in DOMAIN brands, name \in SlugNameInputs, a \in BOOLEAN :
          BrandUpdateAPI(FALSE, b, name, a)
    \/ \E b \in DOMAIN brands : ToggleBrandStatus(FALSE, b)
    \/ \E name \in SlugNameInputs, c \in DOMAIN cats, b \in BrandChoices, a \in BOOLEAN :
          SlugRows < MaxSlugRows /\ ProductCreateForm(FALSE, name, c, b, a)
    \/ \E name \in SlugNameInputs, c \in DOMAIN cats, b \in BrandChoices, a \in BOOLEAN :
          SlugRows < MaxSlugRows /\ ProductCreateAPI(FALSE, name, c, b, a)
    \/ \E p \in DOMAIN products, name \in SlugNameInputs, c \in DOMAIN cats,
           b \in BrandChoices, a \in BOOLEAN :
          ProductUpdate(FALSE, p, name, c, b, a)
    \/ \E p \in DOMAIN products, name \in SlugNameInputs, c \in DOMAIN cats,
           b \in BrandChoices, a \in BOOLEAN :
          ProductUpdateAPI(FALSE, p, name, c, b, a)
    \/ \E p \in DOMAIN products : ToggleProductStatus(FALSE, p)

SpecSlug == Init /\ [][NextSlug]_vars

\* The slug allocators applied to stores that earlier creations, renames and
\* deletions can have left: up to MaxAllocRows rows of one table, holding the
\* slugs "", "-1", "a", "a-1", "a-2" in any combination the unique constraints
\* allow, followed by create and update requests on that table.
AllocSlugs == {<<>>, <<"-", "1">>, <<"a">>, <<"a", "-", "1">>, <<"a", "-", "2">>}

\* the name row k carries: one that slugifies to "" when its slug is empty,
\* otherwise one that slugifies to "a"; no two rows share a name
AllocName(k, slug) ==
    IF slug = <<>> THEN [i \in 1..k |-> "!"]
    ELSE <<"A">> \o [i \in 1..(k - 1) |-> "!"]

AllocNameInputs == {<<"a">>, <<"!", "!", "!", "!">>}

AllocCats(n) ==
    {[k \in 1..n |->
         [name |-> AllocName(k, sl[k]), slug |-> sl[k], parent |-> pa[k],
          path |-> IF pa[k] = NoParent THEN sl[k] ELSE sl[1] \o <<"/">> \o sl[k],
          is_active |-> TRUE]] :
        sl \in [1..n -> AllocSlugs], pa \in [1..n -> {NoParent, 1}]}

AllocBrands(n) ==
    {[k \in 1..n |-> [name |-> AllocName(k, sl[k]), slug |-> sl[k], is_active |-> TRUE]] :
        sl \in [1..n -> AllocSlugs]}

AllocProducts(n) ==
    {[k \in 1..n |-> [name |-> AllocName(k, sl[k]), slug |-> sl[k], category |-> 1,
                      brand |-> NoBrand, is_active |-> TRUE]] :
        sl \in [1..n -> AllocSlugs]}

\* the one category the products of an initial store belong to
AllocCategory ==
    1 :> [name |-> <<"C">>, slug |-> <<"c">>, parent |-> NoParent, path |-> <<"c">>,
          is_active |-> TRUE]

InitAlloc ==
    /\ requests = [t \in Requests |-> IdleRequest]
    /\ reviews = <<>>
    /\ addresses = <<>>
    /\ response = Response("none", "ok", FALSE)
    /\ variants = <<>>
    /\ nextVariantPk = 1
    /\ \E n \in 0..MaxAllocRows :
          \/ /\ cats \in AllocCats(n)
             /\ \A k \in DOMAIN cats : cats[k].parent # k
             /\ ConstraintsOk(cats)
             /\ \A j, k \in DOMAIN cats :
                   (j # k /\ cats[j].parent = cats[k].parent) => cats[j].slug # cats[k].slug
             /\ nextPk = n + 1
             /\ brands = <<>> /\ nextBrandPk = 1
             /\ products = <<>> /\ nextProductPk = 1
          \/ /\ brands \in AllocBrands(n)
             /\ BrandConstraintsOk(brands)
             /\ nextBrandPk = n + 1
             /\ cats = <<>> /\ nextPk = 1
             /\ products = <<>> /\ nextProductPk = 1
          \/ /\ products \in AllocProducts(n)
             /\ ProductConstraintsOk(products)
             /\ nextProductPk = n + 1
             /\ cats = AllocCategory /\ nextPk = 2
             /\ brands = <<>> /\ nextBrandPk = 1

\* one request on the initial store: a create, or an update of a row whose
\* slug is empty
FirstRequest == response.op = "none"

NextAlloc ==
    \/ \E name \in AllocNameInputs, parent \in Parents :
          /\ FirstRequest /\ brands = <<>> /\ products = <<>>
          /\ CategoryCreate(name, parent, TRUE)
    \/ \E c \in DOMAIN cats : \E name \in AllocNameInputs \cup {cats[c].name},
           parent \in Parents :
          /\ FirstRequest /\ products = <<>> /\ cats[c].slug = <<>>
          /\ cats[c].path # <<>>
          /\ CategoryUpdate(c, name, parent, cats[c].is_active)
    \/ \E name \in AllocNameInputs :
          /\ FirstRequest /\ cats = <<>>
          /\ BrandCreate(TRUE, name, TRUE)
    \/ \E b \in DOMAIN brands : \E name \in AllocNameInputs \cup {brands[b].name} :
          /\ FirstRequest /\ brands[b].slug = <<>>
          /\ BrandUpdate(TRUE, b, name, brands[b].is_active)
    \/ \E name \in AllocNameInputs :
          /\ FirstRequest /\ cats = AllocCategory
          /\ ProductCreateForm(TRUE, name, 1, NoBrand, TRUE)

SpecAlloc == InitAlloc /\ [][NextAlloc]_vars

\* ------------------------------------------------------ interleaved requests
\* The category handlers one statement at a time, so that the statements of
\* MaxRequests requests interleave.  The tables other than Category stay empty.
otherVars == <<products, nextProductPk, response, brandVars, variantVars, accountVars>>

\* the tables n create requests, one after another, leave behind
RECURSIVE ConcTrees(_)
ConcTrees(n) ==
    IF n = 0 THEN {<<>>}
    ELSE LET tried == {CategoryCreateView(store, n, name, parent, TRUE) :
                          store \in ConcTrees(n - 1), name \in ConcNameInputs,
                          parent \in 0..(n - 1)}
         IN {h.store : h \in {x \in tried : x.result = "ok"}}

InitConc ==
    /\ requests = [t \in Requests |-> IdleRequest]
    /\ reviews = <<>>
    /\ addresses = <<>>
    /\ response = Response("none", "ok", FALSE)
    /\ products = <<>> /\ nextProductPk = 1
    /\ brands = <<>> /\ nextBrandPk = 1
    /\ variants = <<>> /\ nextVariantPk = 1
    /\ \E n \in 0..MaxConcCats :
          /\ cats \in ConcTrees(n)
          /\ nextPk = n + 1

Free(t) == requests[t].pc = "idle"

\* CategoryCreateView up to form_valid: the form is validated on the
\* committed table, and the parent object it cleaned stays in memory
BeginCreate(t, name, parent) ==
    LET inst == [pk |-> 0, name |-> name, slug |-> <<>>, parent |-> parent,
                 path |-> <<>>, is_active |-> TRUE]
        q == [IdleRequest EXCEPT !.kind = "create", !.inst = inst]
    IN /\ Free(t)
       /\ requests' = [requests EXCEPT ![t] =
              IF clean(cats, inst) /\ validate_constraints(cats, inst)
              THEN [q EXCEPT !.pc = "save", !.loaded = cats]
              ELSE Answered(q, "invalid", "")]
       /\ UNCHANGED <<cats, nextPk, otherVars>>

\* CategoryUpdateView up to form_valid: get_object loads the instance, the
\* posted parent replaces its parent, the form is validated
BeginUpdate(t, c, name, parent) ==
    LET inst == [Instance(cats, c) EXCEPT !.name = name, !.parent = parent]
        q == [IdleRequest EXCEPT !.kind = "update", !.inst = inst]
    IN /\ Free(t)
       /\ requests' = [requests EXCEPT ![t] =
              IF clean(cats, inst) /\ validate_constraints(cats, inst)
              THEN [q EXCEPT !.pc = "save", !.loaded = cats]
              ELSE Answered(q, "invalid", "")]
       /\ UNCHANGED <<cats, nextPk, otherVars>>

\* rows of s2 that are not as in v
ChangedRows(v, s2) == {k \in DOMAIN s2 : k \notin DOMAIN v \/ s2[k] # v[k]}

\* The statement request t runs next, by where its handler stands: W the rows
\* it writes and r how it ends.
\* "save": Category.save up to super().save(); the slug is allocated on what
\* the request sees now, then the row is inserted or updated.
SaveStmt(t) ==
    LET q == requests[t]
        v == View(t)
        i1 == _generate_unique_slug(v, q.inst)
        r == MpttSaveOn(q.loaded, v, i1, AllFields, nextPk)
        pk == IF q.inst.pk = 0 THEN nextPk ELSE q.inst.pk
        row == IF q.inst.pk = 0 THEN Row(i1) ELSE Merge(v[pk], i1, AllFields)
    IN [W |-> IF r.err = "InvalidMove" THEN <<>> ELSE pk :> row, r |-> r]

\* "path": the path is built from the parent object the form cleaned and,
\* when it differs, written
PathStmt(t) ==
    LET q == requests[t]
        v == View(t)
        i2 == [q.inst EXCEPT !.path = _build_path(q.loaded, q.inst)]
    IN IF q.inst.path = i2.path THEN [W |-> <<>>, r |-> Ok(v, i2)]
       ELSE [W |-> q.inst.pk :> Merge(v[q.inst.pk], i2, {"path"}),
             r |-> MpttSaveOn(q.loaded, v, i2, {"path"}, 0)]

\* "cascade": one turn of the loop over get_descendants(); the child's path is
\* built from the row its parent_id fetches, and
\* child.save(update_fields=["path"]) runs
CascadeStmt(t) ==
    LET v == View(t)
        child == Head(requests[t].todo)
        r == save(v, [child EXCEPT !.path = _build_path(v, child)], {"path"}, 0)
    IN [W |-> [k \in ChangedRows(v, r.store) \cup {child.pk} |-> r.store[k]], r |-> r]

NextStmt(t) ==
    CASE requests[t].pc = "save" -> SaveStmt(t)
      [] requests[t].pc = "path" -> PathStmt(t)
      [] requests[t].pc = "cascade" -> CascadeStmt(t)
      [] OTHER -> [W |-> <<>>, r |-> Ok(cats, NoInstance)]

SaveRow(t) ==
    LET q == requests[t]
        st == SaveStmt(t)
    IN /\ q.pc = "save"
       /\ ~WaitsFor(t, st.W)
       /\ nextPk' = IF q.inst.pk = 0 THEN nextPk + 1 ELSE nextPk
       /\ IF st.r.ok
          THEN Effect(t, st.W, [q EXCEPT !.pc = "path", !.inst = st.r.inst])
          ELSE Abort(t, q, st.r.err)
       /\ UNCHANGED otherVars

\* after the path write the descendants are queried
WritePath(t) ==
    LET q == requests[t]
        st == PathStmt(t)
        d == DescendantsInOrder(st.r.store, q.inst.pk)
        found == [i \in 1..Len(d) |-> Instance(st.r.store, d[i])]
    IN /\ q.pc = "path"
       /\ ~WaitsFor(t, st.W)
       /\ IF st.W = <<>>
          THEN /\ requests' = [requests EXCEPT ![t] = [q EXCEPT !.pc = "commit"]]
               /\ cats' = cats
          ELSE IF st.r.ok
          THEN Effect(t, st.W,
                      [q EXCEPT !.pc = IF found = <<>> THEN "commit" ELSE "cascade",
                                !.inst = st.r.inst, !.found = found, !.todo = found])
          ELSE Abort(t, q, st.r.err)
       /\ UNCHANGED <<nextPk, otherVars>>

CascadeStep(t) ==
    LET q == requests[t]
        st == CascadeStmt(t)
        rest == Tail(q.todo)
    IN /\ q.pc = "cascade"
       /\ ~WaitsFor(t, st.W)
       /\ IF st.r.ok
          THEN Effect(t, st.W, [q EXCEPT !.todo = rest,
                                         !.pc = IF rest = <<>> THEN "commit" ELSE "cascade"])
          ELSE Abort(t, q, st.r.err)
       /\ UNCHANGED <<nextPk, otherVars>>

\* the handler returns: the atomic block, if there is one, commits
CommitRequest(t) ==
    LET q == requests[t]
    IN /\ q.pc = "commit"
       /\ cats' = q.writes @@ cats
       /\ requests' = [requests EXCEPT ![t] = Answered(q, "ok", "")]
       /\ UNCHANGED <<nextPk, otherVars>>

\* two requests wait for each other: the database ends one of them with a
\* deadlock error, which leaves the handler
DeadlockAbort(t) ==
    /\ \E u \in Requests :
          /\ WaitsOn(t, u, NextStmt(t).W)
          /\ WaitsOn(u, t, NextStmt(u).W)
    /\ Abort(t, requests[t], "OperationalError")
    /\ UNCHANGED <<nextPk, otherVars>>

\* an update is addressed by the path in its URL, which is never empty
NextConc ==
    \/ \E t \in Requests, name \in ConcNameInputs, parent \in Parents :
          BeginCreate(t, name, parent)
    \/ \E t \in Requests, c \in DOMAIN cats, parent \in Parents :
          cats[c].path # <<>> /\ BeginUpdate(t, c, cats[c].name, parent)
    \/ \E t \in Requests : SaveRow(t)
    \/ \E t \in Requests : WritePath(t)
    \/ \E t \in Requests : CascadeStep(t)
    \/ \E t \in Requests : CommitRequest(t)
    \/ \E t \in Requests : DeadlockAbort(t)

SpecConc == InitConc /\ [][NextConc]_vars

\* One update request, statement by statement, on the tables that up to
\* MaxCascadeCats creates of categories named "A" leave behind.
InitCascade ==
    /\ requests = [t \in Requests |-> IdleRequest]
    /\ reviews = <<>>
    /\ addresses = <<>>
    /\ response = Response("none", "ok", FALSE)
    /\ products = <<>> /\ nextProductPk = 1
    /\ brands = <<>> /\ nextBrandPk = 1
    /\ variants = <<>> /\ nextVariantPk = 1
    /\ \E n \in 0..MaxCascadeCats :
          /\ cats \in {s \in ConcTrees(n) : \A k \in DOMAIN s : s[k].name = <<"A">>}
          /\ nextPk = n + 1

NextCascade ==
    \/ \E c \in DOMAIN cats, parent \in Parents :
          cats[c].path # <<>> /\ BeginUpdate(1, c, cats[c].name, parent)
    \/ SaveRow(1)
    \/ WritePath(1)
    \/ CascadeStep(1)
    \/ CommitRequest(1)

SpecCascade == InitCascade /\ [][NextCascade]_vars

\* One create request and one update request, statement by statement and
\* possibly at the same time, and toggle requests that run while neither of
\* them is in flight,
\* on the tables that up to MaxToggleCats creates of categories named "A"
\* leave behind.
InitToggle ==
    /\ requests = [t \in Requests |-> IdleRequest]
    /\ reviews = <<>>
    /\ addresses = <<>>
    /\ response = Response("none", "ok", FALSE)
    /\ products = <<>> /\ nextProductPk = 1
    /\ brands = <<>> /\ nextBrandPk = 1
    /\ variants = <<>> /\ nextVariantPk = 1
    /\ \E n \in 0..MaxToggleCats :
          /\ cats \in {s \in ConcTrees(n) : \A k \in DOMAIN s : s[k].name = <<"A">>}
          /\ nextPk = n + 1

\* no create or update request is between its form validation and its answer
NoRequestInFlight == \A t \in Requests : requests[t].pc \in {"idle", "done"}

NextToggle ==
    \/ \E parent \in Parents : BeginCreate(1, <<"A">>, parent)
    \/ \E c \in DOMAIN cats, parent \in Parents :
          BeginUpdate(2, c, cats[c].name, parent)
    \/ \E t \in Requests : SaveRow(t)
    \/ \E t \in Requests : WritePath(t)
    \/ \E t \in Requests : CascadeStep(t)
    \/ \E t \in Requests : CommitRequest(t)
    \/ \E c \in DOMAIN cats : NoRequestInFlight /\ TreeToggle(c)

SpecToggle == InitToggle /\ [][NextToggle]_vars

\* ------------------------------------------------- lifecycle of the catalog
\* Creations, status toggles, deactivations and deletions of categories,
\* brands, products and variants through the dashboard, and the deletions of
\* the REST API; every request records its response.
GuardNameInputs == {<<"A">>}

NextGuard ==
    \/ \E parent \in Parents, a \in BOOLEAN :
          nextPk <= MaxGuardCats /\ CategoryCreate(<<"A">>, parent, a)
    \/ \E c \in DOMAIN cats : ToggleCategoryStatus(c)
    \/ \E c \in DOMAIN cats : SoftDeleteCategory(c)
    \/ \E c \in DOMAIN cats : cats[c].path # <<>> /\ CategoryDelete(c)
    \/ \E name \in GuardNameInputs, a \in BOOLEAN :
          nextBrandPk <= MaxGuardRows /\ BrandCreate(TRUE, name, a)
    \/ \E b \in DOMAIN brands : ToggleBrandStatus(TRUE, b)
    \/ \E b \in DOMAIN brands : SoftDeleteBrand(TRUE, b)
    \/ \E b \in DOMAIN brands : BrandDelete(TRUE, b)
    \/ \E b \in DOMAIN brands : BrandDeleteAPI(TRUE, b)
    \/ \E name \in GuardNameInputs, c \in DOMAIN cats, b \in BrandChoices, a \in BOOLEAN :
          nextProductPk <= MaxGuardRows /\ ProductCreateForm(TRUE, name, c, b, a)
    \/ \E p \in DOMAIN products : ToggleProductStatus(TRUE, p)
    \/ \E p \in DOMAIN products : ProductDelete(TRUE, p)
    \/ \E p \in DOMAIN products : ProductDeleteAPI(TRUE, p)
    \/ \E p \in DOMAIN products, a \in BOOLEAN :
          nextVariantPk <= MaxGuardRows /\ VariantCreate(TRUE, p, a)
    \/ \E v \in DOMAIN variants : ToggleVariantStatus(TRUE, v)
    \/ \E v \in DOMAIN variants : VariantDelete(TRUE, v)

SpecGuard == Init /\ [][NextGuard]_vars

\* -------------------------------------------------- category lookup by path
TreeWord == <<"t", "r", "e", "e">>
LookupNameInputs == {<<"A">>, <<"T", "r", "e", "e">>}

\* CategoryDetailAPIView.get_object: get_object_or_404(Category, path=path,
\* is_active=True); the answer is the pk of the row (path is unique)
CategoryDetailAPIView(store, path) ==
    LET match == {k \in DOMAIN store : store[k].path = path /\ store[k].is_active}
    IN IF match = {} THEN [status |-> 404, view |-> "category-detail", id |-> 0]
       ELSE [status |-> 200, view |-> "category-detail", id |-> CHOOSE k \in match : TRUE]

\* the view that answers GET categories/<path>/ : urlpatterns are tried in
\* order, and 'categories/tree/' stands before 'categories/<path:path>/'
CategoryRoute(path) ==
    IF path = TreeWord THEN "category-tree" ELSE "category-detail"

\* GET api/products/categories/<path>/
GetCategoryByPath(store, path) ==
    IF CategoryRoute(path) = "category-detail" THEN CategoryDetailAPIView(store, path)
    ELSE [status |-> 200, view |-> "category-tree", id |-> 0]

\* the strings a lookup asks for: the stored paths and one no row carries
LookupPaths == {cats[k].path : k \in DOMAIN cats} \cup {<<"z">>}

CategoryLookup(path) ==
    /\ path # <<>>
    /\ response' = [Response("api_category_detail", "ok", FALSE)
                      EXCEPT !.body = [path |-> path] @@ GetCategoryByPath(cats, path)]
    /\ UNCHANGED <<accountVars, requests, cats, nextPk, products, nextProductPk, brandVars, variantVars>>

NextLookup ==
    \/ \E name \in LookupNameInputs, parent \in Parents, a \in BOOLEAN :
          nextPk <= MaxLookupCats /\ CategoryCreate(name, parent, a)
    \/ \E c \in DOMAIN cats : ToggleCategoryStatus(c)
    \/ \E path \in LookupPaths : CategoryLookup(path)

SpecLookup == Init /\ [][NextLookup]_vars

\* ----------------------------------------------------------- category tree
\* REST_FRAMEWORK["PAGE_SIZE"] of PageNumberPagination
PageSize == 12

\* CategoryTreeSerializer of row k: its id and, by get_children, the
\* serialized active children
RECURSIVE CategoryTreeSerializer(_, _, _)
CategoryTreeSerializer(store, k, depth) ==
    [id |-> k,
     children |-> IF depth = 0 THEN {}
                  ELSE {CategoryTreeSerializer(store, ch, depth - 1) :
                           ch \in {j \in Children(store, k) : store[j].is_active}}]

\* CategoryTreeAPIView.get_queryset: the active roots
TreeQueryset(store) ==
    {k \in DOMAIN store : store[k].is_active /\ store[k].parent = NoParent}

\* the pages a GET without ?page= may show: the first PageSize rows of the
\* queryset in the order of sort_order, which every row of the model shares,
\* so any PageSize of them
FirstPages(S) ==
    IF Cardinality(S) <= PageSize THEN {S}
    ELSE {P \in SUBSET S : Cardinality(P) = PageSize}

\* ListAPIView.list: the queryset is paginated, then serialized
PaginateQueryset(S) == FirstPages(S)

\* the "results" a GET categories/tree/ may answer with
CategoryTreeAPIView(store) ==
    {{CategoryTreeSerializer(store, k, Cardinality(DOMAIN store)) : k \in page} :
        page \in PaginateQueryset(TreeQueryset(store))}

\* the table that r creates of a root named "A" and then d creates of "A",
\* the first below root 1 and each next one below the one before, leave
\* behind: the roots carry the slugs a, a-1, a-2, ...
MenuSlug(k) == IF k = 1 THEN <<"a">> ELSE <<"a", "-">> \o Str(k - 1)

MenuPath(k, r) ==
    IF k <= r THEN MenuSlug(k)
    ELSE IF k = r + 1 THEN <<"a", "/", "a">>
    ELSE <<"a", "/", "a", "/", "a">>

MenuTable(r, d) ==
    [k \in 1..(r + d) |->
        [name |-> <<"A">>,
         slug |-> IF k <= r THEN MenuSlug(k) ELSE <<"a">>,
         parent |-> IF k <= r THEN NoParent ELSE IF k = r + 1 THEN 1 ELSE k - 1,
         path |-> MenuPath(k, r),
         is_active |-> TRUE]]

InitMenu ==
    /\ requests = [t \in Requests |-> IdleRequest]
    /\ reviews = <<>>
    /\ addresses = <<>>
    /\ response = Response("none", "ok", FALSE)
    /\ \E r \in 0..MaxMenuRoots, d \in 0..MaxMenuDepth :
          /\ r = 0 => d = 0
          /\ cats = MenuTable(r, d)
          /\ nextPk = r + d + 1
    /\ products = <<>> /\ nextProductPk = 1
    /\ brands = <<>> /\ nextBrandPk = 1
    /\ variants = <<>> /\ nextVariantPk = 1

\* the categories whose status the requests of SpecMenu toggle: the first
\* two roots and the chain below the first root
MenuToggled == {c \in DOMAIN cats : c <= 2 \/ cats[c].parent # NoParent}

GetCategoryTree ==
    /\ \E results \in CategoryTreeAPIView(cats) :
          response' = [Response("api_category_tree", "ok", FALSE) EXCEPT !.body = results]
    /\ UNCHANGED <<accountVars, requests, cats, nextPk, products, nextProductPk, brandVars, variantVars>>

NextMenu ==
    \/ \E c \in MenuToggled : ToggleCategoryStatus(c)
    \/ GetCategoryTree

SpecMenu == InitMenu /\ [][NextMenu]_vars

\* ------------------------------------------------------------ variant price
\* sale_price is nullable: <<>> is None, <<v>> the value v
NoSalePrice == <<>>
PriceInputs == (0 - MaxBelowZero)..MaxPrice
SalePriceInputs == {NoSalePrice} \cup {<<v>> : v \in PriceInputs}

\* truth value of an optional Decimal: None and zero are false
Truthy(d) == d # NoSalePrice /\ d[1] # 0

\* the operand test of "if self.sale_price and ..." and "self.sale_price or ..."
SalePriceTest(d) == Truthy(d)

\* ProductVariant.clean
VariantClean(price, sale_price) ==
    IF SalePriceTest(sale_price) /\ sale_price[1] >= price THEN "invalid" ELSE "ok"

\* ProductVariant.get_price
get_price(price, sale_price) ==
    IF SalePriceTest(sale_price) THEN sale_price[1] ELSE price

\* a variant with a price and a sale price, before it is validated or read
InitPrice ==
    /\ requests = [t \in Requests |-> IdleRequest]
    /\ reviews = <<>>
    /\ addresses = <<>>
    /\ \E price \in PriceInputs, sale_price \in SalePriceInputs :
          response = [Response("none", "ok", FALSE)
                        EXCEPT !.body = [price |-> price, sale_price |-> sale_price]]
    /\ cats = <<>> /\ nextPk = 1
    /\ products = <<>> /\ nextProductPk = 1
    /\ brands = <<>> /\ nextBrandPk = 1
    /\ variants = <<>> /\ nextVariantPk = 1

\* full_clean of the variant form calls clean
ValidateVariant ==
    /\ response.op = "none"
    /\ response' = [response EXCEPT
                       !.op = "variant_clean",
                       !.result = VariantClean(response.body.price, response.body.sale_price)]
    /\ UNCHANGED <<accountVars, requests, cats, nextPk, products, nextProductPk, brandVars, variantVars>>

ReadPrice ==
    /\ response.op = "none"
    /\ response' = [response EXCEPT
                       !.op = "variant_get_price",
                       !.body = [value |-> get_price(@.price, @.sale_price)] @@ @]
    /\ UNCHANGED <<accountVars, requests, cats, nextPk, products, nextProductPk, brandVars, variantVars>>

NextPrice == ValidateVariant \/ ReadPrice

SpecPrice == InitPrice /\ [][NextPrice]_vars

\* ---------------------------------------------------------- product reviews
\* ratings a review carries (validators 1..5)
RatingInputs == {1, 2, 5}

RECURSIVE Gcd(_, _)
Gcd(a, b) == IF b = 0 THEN a ELSE Gcd(b, a % b)

\* the number num/den in lowest terms
Fraction(num, den) == [num |-> num \div Gcd(num, den), den |-> den \div Gcd(num, den)]

\* the aggregate over no row is None
NoAverage == [num |-> 0, den |-> 0]
Zero == [num |-> 0, den |-> 1]

RECURSIVE SumRatings(_, _)
SumRatings(store, S) ==
    IF S = {} THEN 0
    ELSE LET k == CHOOSE x \in S : TRUE
         IN store[k].rating + SumRatings(store, S \ {k})

\* aggregate(avg=Avg('rating'))['avg'] over the rows S
Avg(store, S) ==
    IF S = {} THEN NoAverage ELSE Fraction(SumRatings(store, S), Cardinality(S))

\* mutation: every review of the product is counted
ReviewsOf(store, p) == {k \in DOMAIN store : store[k].product = p}

\* self.reviews.filter(is_approved=True)
ApprovedReviews(store, p) ==
    {k \in DOMAIN store : store[k].product = p /\ store[k].is_approved}

\* Product.average_rating: "... or 0" turns None and 0 into 0
average_rating(store, p) ==
    LET avg == Avg(store, ApprovedReviews(store, p))
    IN IF avg = NoAverage \/ avg.num = 0 THEN Zero ELSE avg

RatedProducts == 1..MaxRatedProducts
Reviewers == 1..MaxReviewers

\* the category and the products the reviews are about
InitRating ==
    /\ requests = [t \in Requests |-> IdleRequest]
    /\ reviews = <<>>
    /\ addresses = <<>>
    /\ response = Response("none", "ok", FALSE)
    /\ cats = CategoryCreateView(<<>>, 1, <<"A">>, NoParent, TRUE).store
    /\ nextPk = 2
    /\ products = [p \in RatedProducts |->
                      [name |-> <<"A">>, slug |-> IF p = 1 THEN <<"a">> ELSE <<"a", "-">> \o Str(p - 1),
                       category |-> 1, brand |-> NoBrand, is_active |-> TRUE]]
    /\ nextProductPk = MaxRatedProducts + 1
    /\ brands = <<>> /\ nextBrandPk = 1
    /\ variants = <<>> /\ nextVariantPk = 1

\* a write of the review table (unique_together: one review per product and
\* user, so a row is named by that pair)
ReviewCommit(op, store) ==
    /\ reviews' = store
    /\ response' = Response(op, "ok", store # reviews)
    /\ UNCHANGED <<addresses, requests, cats, nextPk, products, nextProductPk,
                   brandVars, variantVars>>

\* ProductReview row saved: created, or its rating and approval changed
ReviewSave(p, u, rating, approved) ==
    ReviewCommit("review_save",
                 (<<p, u>> :> [product |-> p, user |-> u, rating |-> rating,
                               is_approved |-> approved]) @@ reviews)

ReviewDelete(k) ==
    ReviewCommit("review_delete", [j \in DOMAIN reviews \ {k} |-> reviews[j]])

\* ProductDetailSerializer reads average_rating
ReadAverageRating(p) ==
    /\ response' = [Response("average_rating", "ok", FALSE)
                      EXCEPT !.body = [product |-> p, value |-> average_rating(reviews, p)]]
    /\ UNCHANGED <<accountVars, requests, cats, nextPk, products, nextProductPk,
                   brandVars, variantVars>>

NextRating ==
    \/ \E p \in RatedProducts, u \in Reviewers, rating \in RatingInputs, approved \in BOOLEAN :
          ReviewSave(p, u, rating, approved)
    \/ \E k \in DOMAIN reviews : ReviewDelete(k)
    \/ \E p \in RatedProducts : ReadAverageRating(p)

SpecRating == InitRating /\ [][NextRating]_vars

\* -------------------------------------------------------------- variant sku
\* Variant create and update requests that carry a sku, one statement at a
\* time; the rows of the variant table carry the sku here.
SkuInputs == {<<"X">>, <<"Y">>}

\* unique=True on ProductVariant.sku: a row other than pk holds the sku
SkuTaken(store, pk, sku) == \E k \in DOMAIN store \ {pk} : store[k].sku = sku

\* the tables of n variants of product 1 with distinct skus
SkuTables(n) ==
    {t \in [1..n -> [product : {1}, sku : SkuInputs, is_active : {TRUE}]] :
        \A j, k \in 1..n : j # k => t[j].sku # t[k].sku}

InitSku ==
    /\ requests = [t \in Requests |-> IdleRequest]
    /\ reviews = <<>>
    /\ addresses = <<>>
    /\ response = Response("none", "ok", FALSE)
    /\ cats = CategoryCreateView(<<>>, 1, <<"A">>, NoParent, TRUE).store
    /\ nextPk = 2
    /\ products = ProductCreateView(<<>>, 1, <<"A">>, 1, NoBrand, TRUE).store
    /\ nextProductPk = 2
    /\ brands = <<>> /\ nextBrandPk = 1
    /\ \E n \in 0..MaxSkuRows : variants \in SkuTables(n) /\ nextVariantPk = n + 1

SkuStep(t, q) ==
    /\ requests' = [requests EXCEPT ![t] = q]
    /\ UNCHANGED <<accountVars, cats, nextPk, products, nextProductPk, response,
                   brandVars, variants>>

\* the ModelForm of the view is validated: validate_unique looks the sku up
\* among the committed rows and puts its error on the sku field
VariantFormValid(t, kind, inst) ==
    /\ Free(t)
    /\ SkuStep(t, IF SkuTaken(variants, inst.pk, inst.sku)
                  THEN Answered([IdleRequest EXCEPT !.kind = kind, !.inst = inst,
                                                    !.loaded = variants],
                                "invalid", "sku")
                  ELSE [IdleRequest EXCEPT !.pc = "form_valid", !.kind = kind,
                                           !.inst = inst, !.loaded = variants])
    /\ nextVariantPk' = nextVariantPk

BeginVariantCreate(t, sku) ==
    VariantFormValid(t, "variant_create",
                     [pk |-> 0, product |-> 1, sku |-> sku, is_active |-> TRUE])

BeginVariantUpdate(t, v, sku) ==
    VariantFormValid(t, "variant_update",
                     [pk |-> v, product |-> variants[v].product, sku |-> sku,
                      is_active |-> variants[v].is_active])

\* form_valid: form.instance.full_clean() looks the sku up again; its
\* ValidationError carries an error_dict, so add_error(None, e) puts the error
\* on the sku field
VariantFullClean(t) ==
    LET q == requests[t]
    IN /\ q.pc = "form_valid"
       /\ SkuStep(t, IF SkuTaken(variants, q.inst.pk, q.inst.sku)
                     THEN Answered(q, "invalid", "sku")
                     ELSE [q EXCEPT !.pc = "save"])
       /\ nextVariantPk' = nextVariantPk

\* the INSERT or UPDATE waits for an open transaction that wrote the same row
\* or a row with the same sku
SkuWaits(t, pk, sku) ==
    \E u \in Requests \ {t} : \E k \in DOMAIN requests[u].writes :
        k = pk \/ requests[u].writes[k].sku = sku

\* the answer of the "except IntegrityError" branch: add_error("sku", ...)
\* and form_invalid, which builds get_context_data; that of the update view
\* reads self.object.product, a query inside the atomic block the failed
\* statement has marked for rollback
AfterIntegrityError(kind) ==
    IF kind = "variant_update"
    THEN [result |-> "error", err |-> "TransactionManagementError"]
    ELSE [result |-> "invalid", err |-> "sku"]

\* super().form_valid: form.save() writes the row inside the atomic block
VariantSaveRow(t) ==
    LET q == requests[t]
        pk == IF q.inst.pk = 0 THEN nextVariantPk ELSE q.inst.pk
        row == [product |-> q.inst.product, sku |-> q.inst.sku,
                is_active |-> q.inst.is_active]
        a == AfterIntegrityError(q.kind)
    IN /\ q.pc = "save"
       /\ ~SkuWaits(t, pk, q.inst.sku)
       /\ nextVariantPk' = IF q.inst.pk = 0 THEN nextVariantPk + 1 ELSE nextVariantPk
       /\ SkuStep(t, IF SkuTaken(variants, pk, q.inst.sku)
                     THEN Answered([q EXCEPT !.inst.pk = pk], a.result, a.err)
                     ELSE [q EXCEPT !.pc = "commit", !.inst.pk = pk,
                                    !.writes = pk :> row])

\* the atomic block of form_valid ends: the row is committed
VariantCommitRow(t) ==
    LET q == requests[t]
    IN /\ q.pc = "commit"
       /\ q.kind \in {"variant_create", "variant_update"}
       /\ variants' = q.writes @@ variants
       /\ requests' = [requests EXCEPT ![t] = Answered(q, "ok", "")]
       /\ UNCHANGED <<accountVars, cats, nextPk, products, nextProductPk, response,
                      brandVars, nextVariantPk>>

NextSku ==
    \/ \E t \in Requests, sku \in SkuInputs : BeginVariantCreate(t, sku)
    \/ \E t \in Requests, v \in DOMAIN variants, sku \in SkuInputs :
          BeginVariantUpdate(t, v, sku)
    \/ \E t \in Requests : VariantFullClean(t)
    \/ \E t \in Requests : VariantSaveRow(t)
    \/ \E t \in Requests : VariantCommitRow(t)

SpecSku == InitSku /\ [][NextSku]_vars

\* ---------------------------------------------------------------- addresses
\* rows of Address: the owner and the default flag; ids are given in order
\* and no request of the specifications below deletes a row
Users == 1..MaxUsers
NextAddressId == Cardinality(DOMAIN addresses) + 1

\* Address.objects.filter(user=request.user) holds the row
Owns(store, u, a) == a \in DOMAIN store /\ store[a].user = u

\* AddressListCreateView.perform_create: serializer.save(user=request.user);
\* is_default is a writable field of the serializer
AddressListCreateView(store, newId, u, is_default) ==
    Outcome((newId :> [user |-> u, is_default |-> is_default]) @@ store, "ok")

\* AddressDetailView (PUT, PATCH): get_object on the user's rows, then
\* perform_update
AddressDetailView(store, u, a, is_default) ==
    IF ~Owns(store, u, a) THEN Outcome(store, "not_found")
    ELSE Outcome([store EXCEPT ![a].is_default = is_default], "ok")

\* mutation: the other addresses keep their flag
KeepOtherDefaults(store, u, a) == store

\* Address.objects.filter(user=request.user, is_default=True)
\*     .exclude(id=address.id).update(is_default=False)
ClearOtherDefaults(store, u, a) ==
    [k \in DOMAIN store |->
        IF store[k].user = u /\ store[k].is_default /\ k # a
        THEN [store[k] EXCEPT !.is_default = FALSE] ELSE store[k]]

\* address.is_default = True; address.save() writes every column of the
\* object the request loaded
SaveAsDefault(store, a, loaded) == [store EXCEPT ![a] = [loaded EXCEPT !.is_default = TRUE]]

\* SetDefaultAddressView.post, nothing running beside it
SetDefaultAddressView(store, u, a) ==
    IF ~Owns(store, u, a) THEN Outcome(store, "not_found")
    ELSE Outcome(SaveAsDefault(ClearOtherDefaults(store, u, a), a, store[a]), "ok")

AddressCommit(op, u, a, h) ==
    /\ addresses' = h.store
    /\ response' = [Response(op, h.result, h.store # addresses)
                      EXCEPT !.body = [user |-> u, id |-> a]]
    /\ UNCHANGED <<reviews, requests, cats, nextPk, products, nextProductPk,
                   brandVars, variantVars>>

AddressCreate(u, is_default) ==
    /\ NextAddressId <= MaxAddresses
    /\ AddressCommit("address_create", u, NextAddressId,
                     AddressListCreateView(addresses, NextAddressId, u, is_default))

AddressUpdate(u, a, is_default) ==
    AddressCommit("address_update", u, a, AddressDetailView(addresses, u, a, is_default))

SetDefaultAddress(u, a) ==
    AddressCommit("address_set_default", u, a, SetDefaultAddressView(addresses, u, a))

NextAddress ==
    \/ \E u \in Users, d \in BOOLEAN : AddressCreate(u, d)
    \/ \E u \in Users, a \in DOMAIN addresses, d \in BOOLEAN : AddressUpdate(u, a, d)
    \/ \E u \in Users, a \in DOMAIN addresses : SetDefaultAddress(u, a)

SpecAddress == Init /\ [][NextAddress]_vars

\* SetDefaultAddressView.post one statement at a time (it opens no
\* transaction, so each statement commits on its own), beside other
\* set-default requests and the create and update requests
AddressStep(t, q, store) ==
    /\ requests' = [requests EXCEPT ![t] = q]
    /\ addresses' = store
    /\ UNCHANGED <<reviews, cats, nextPk, products, nextProductPk, response,
                   brandVars, variantVars>>

\* Address.objects.get(id=id, user=request.user)
BeginSetDefault(t, u, a) ==
    /\ Free(t)
    /\ AddressStep(t,
                   IF ~Owns(addresses, u, a)
                   THEN Answered([IdleRequest EXCEPT !.kind = "set_default"], "not_found", "")
                   ELSE [IdleRequest EXCEPT !.pc = "clear", !.kind = "set_default",
                                            !.inst = [pk |-> a] @@ addresses[a]],
                   addresses)

\* the update of the other default addresses
ClearDefaults(t) ==
    LET q == requests[t]
    IN /\ q.pc = "clear"
       /\ AddressStep(t, [q EXCEPT !.pc = "save_default"],
                      ClearOtherDefaults(addresses, q.inst.user, q.inst.pk))

\* address.is_default = True; address.save()
SaveDefault(t) ==
    LET q == requests[t]
    IN /\ q.pc = "save_default"
       /\ AddressStep(t, Answered(q, "ok", ""),
                      SaveAsDefault(addresses, q.inst.pk,
                                    [user |-> q.inst.user, is_default |-> q.inst.is_default]))

NextAddressConc ==
    \/ \E u \in Users, d \in BOOLEAN : AddressCreate(u, d)
    \/ \E u \in Users, a \in DOMAIN addresses, d \in BOOLEAN : AddressUpdate(u, a, d)
    \/ \E t \in Requests, u \in Users, a \in DOMAIN addresses : BeginSetDefault(t, u, a)
    \/ \E t \in Requests : ClearDefaults(t)
    \/ \E t \in Requests : SaveDefault(t)

SpecAddressConc == Init /\ [][NextAddressConc]_vars

\* ------------------------------------------------------------------ claims
\* C1: in every reachable state every category's path is its parent's path,
\* "/" and its own slug, or its own slug alone when it is a root.
C1_PathMatchesParent ==
    \A c \in DOMAIN cats :
        IF cats[c].parent = NoParent
        THEN cats[c].path = cats[c].slug
        ELSE /\ cats[c].parent \in DOMAIN cats
             /\ cats[c].path = cats[cats[c].parent].path \o <<"/">> \o cats[c].slug

\* a category with a child and a grandchild lies under a category created
\* after it: it was moved there, and the cascade went two levels deep
C1_Witness ==
    \E c, d, e \in DOMAIN cats :
        /\ cats[c].parent > c
        /\ cats[d].parent = c
        /\ cats[e].parent = d

\* the categories reached from c by following parent links, at most n of them
RECURSIVE AncestorsOf(_, _, _)
AncestorsOf(store, c, n) ==
    IF n = 0 \/ c \notin DOMAIN store \/ store[c].parent = NoParent THEN {}
    ELSE {store[c].parent} \cup AncestorsOf(store, store[c].parent, n - 1)

AncestorSet(store, c) == AncestorsOf(store, c, Cardinality(DOMAIN store))

\* B is c itself or lies below c
InSubtree(store, c, B) == B = c \/ c \in AncestorSet(store, B)

PathOk(store, c) ==
    IF store[c].parent = NoParent
    THEN store[c].path = store[c].slug
    ELSE store[c].path = store[store[c].parent].path \o <<"/">> \o store[c].slug

ActiveChild(c) == \E k \in DOMAIN cats : cats[k].parent = c /\ cats[k].is_active

LinkedProduct(c) == \E p \in DOMAIN products : products[p].category = c

\* C2: the parent relation is acyclic: following parent links from any
\* category never comes back to it, and no category is its own parent.
C2_Acyclic == \A c \in DOMAIN cats : c \notin AncestorSet(cats, c)

\* a category was moved under one created after it, which itself has a parent
C2_Witness ==
    \E c \in DOMAIN cats :
        /\ cats[c].parent > c
        /\ cats[cats[c].parent].parent # NoParent

\* C3: an update that moves A under B is rejected (the request fails and the
\* store is unchanged) exactly when B is A or lies below A; any other B (no
\* sibling of that name or slug under it) is accepted, and the paths of A and
\* its descendants are recomputed.
C3_RejectedExactlyOnCycle ==
    [][\A A \in DOMAIN cats, B \in DOMAIN cats, a \in BOOLEAN :
          CategoryUpdate(A, cats[A].name, B, a) =>
             IF InSubtree(cats, A, B)
             THEN response'.result \in {"invalid", "error"} /\ cats' = cats
             ELSE \/ \E k \in DOMAIN cats \ {A} :
                        /\ cats[k].parent = B
                        /\ \/ LowerStr(cats[k].name) = LowerStr(cats[A].name)
                           \/ cats[k].slug = cats[A].slug
                  \/ /\ response'.result = "ok"
                     /\ cats'[A].parent = B
                     /\ \A d \in DOMAIN cats : InSubtree(cats', A, d) => PathOk(cats', d)]_vars

\* C4: no step turns a category from active to inactive while it has an active
\* child or a product referencing it.
C4_NoDeactivationWithDependents ==
    [][\A c \in DOMAIN cats :
          (c \in DOMAIN cats' /\ cats[c].is_active /\ ~cats'[c].is_active)
             => ~(ActiveChild(c) \/ LinkedProduct(c))]_vars

\* C5: a category row that a step removes is inactive when it is removed.
C5_OnlyInactiveRemoved ==
    [][\A c \in DOMAIN cats : c \notin DOMAIN cats' => ~cats[c].is_active]_vars

\* C6: soft delete of an active category that a product references is refused
\* and leaves it active, and hard delete of a category that a product
\* references removes nothing.
C6_ProductsBlockDelete ==
    [][\A c \in DOMAIN cats :
          LinkedProduct(c) =>
             /\ (cats[c].is_active /\ SoftDeleteCategory(c)) =>
                   response'.result = "refused" /\ cats'[c].is_active
             /\ CategoryDelete(c) => response'.result # "ok" /\ cats' = cats]_vars

\* C7: soft delete of a category with an active child is refused and changes
\* nothing; with no active child and no linked product it succeeds and the
\* category is inactive afterwards.
C7_SoftDeleteOutcome ==
    [][\A c \in DOMAIN cats :
          SoftDeleteCategory(c) =>
             /\ ActiveChild(c) => response'.result = "refused" /\ cats' = cats
             /\ (~ActiveChild(c) /\ ~LinkedProduct(c)) =>
                   /\ response'.result = "ok"
                   /\ ~cats'[c].is_active
                   /\ \A k \in DOMAIN cats \ {c} : cats'[k] = cats[k]]_vars

\* a soft delete has just turned an active child inactive, under a parent that
\* is still active
C7_Witness ==
    /\ response = Response("soft_delete", "ok", TRUE)
    /\ products = <<>>
    /\ \E c \in DOMAIN cats :
          /\ ~cats[c].is_active
          /\ cats[c].parent # NoParent
          /\ cats[cats[c].parent].is_active

\* lookups by id and by path (get_object_or_404)
GetById(store, pk) == {k \in DOMAIN store : k = pk}
GetByPath(store, path) == {k \in DOMAIN store : store[k].path = path}

\* C8: hard delete of an active category is refused and removes nothing; of an
\* inactive category with no active child and no linked product it succeeds,
\* and the category is then found neither by id nor by path.
C8_HardDeleteOutcome ==
    [][\A c \in DOMAIN cats :
          CategoryDelete(c) =>
             /\ cats[c].is_active => response'.result = "refused" /\ cats' = cats
             /\ (~cats[c].is_active /\ ~ActiveChild(c) /\ ~LinkedProduct(c)) =>
                   /\ response'.result = "ok"
                   /\ GetById(cats', c) = {}
                   /\ GetByPath(cats', cats[c].path) = {}]_vars

\* C9: no two categories with the same parent (roots included) have names that
\* are equal ignoring case.
C9_SiblingNamesUnique ==
    \A j, k \in DOMAIN cats :
        (j # k /\ cats[j].parent = cats[k].parent)
            => LowerStr(cats[j].name) # LowerStr(cats[k].name)

\* C10: a create whose name equals, ignoring case, that of a category with the
\* same parent ends with a validation error and adds no row; otherwise (the
\* name is only used under other parents) it succeeds.
C10_CreateDuplicateRejected ==
    [][\A name \in NameInputs, parent \in Parents, a \in BOOLEAN :
          CategoryCreate(name, parent, a) =>
             IF \E k \in DOMAIN cats :
                   cats[k].parent = parent /\ LowerStr(cats[k].name) = LowerStr(name)
             THEN response'.result = "invalid" /\ cats' = cats
             ELSE response'.result = "ok" /\ DOMAIN cats' = DOMAIN cats \cup {nextPk}]_vars

\* path strings of the round trip
Slash == <<"/">>
PathElectronics == <<"e", "l", "e", "c", "t", "r", "o", "n", "i", "c", "s">>
SlugMobiles == <<"m", "o", "b", "i", "l", "e", "s">>
SlugPhones == <<"p", "h", "o", "n", "e", "s">>
SlugSmartphones == <<"s", "m", "a", "r", "t", "p", "h", "o", "n", "e", "s">>
PathMobiles == PathElectronics \o Slash \o SlugMobiles
PathSmartphones == PathMobiles \o Slash \o SlugSmartphones
PathPhonesSmartphones == PathElectronics \o Slash \o SlugPhones \o Slash \o SlugSmartphones

\* root e "Electronics", its child m "Mobiles" and m's child g "Smartphones",
\* with the paths the creations gave them
RoundTripCreated(e, m, g) ==
    /\ cats[e].name = Electronics /\ cats[e].parent = NoParent
    /\ cats[e].path = PathElectronics
    /\ cats[m].name = Mobiles /\ cats[m].parent = e /\ cats[m].path = PathMobiles
    /\ cats[g].name = Smartphones /\ cats[g].parent = m
    /\ cats[g].path = PathSmartphones

\* C11: after the three creations, renaming "Mobiles" to "Phones" through the
\* update entry point changes the grandchild's path to
\* "electronics/phones/smartphones".
C11_RenameRewritesGrandchildPath ==
    [][\A e, m, g \in DOMAIN cats :
          (RoundTripCreated(e, m, g) /\ CategoryUpdate(m, Phones, e, cats[m].is_active))
             => cats'[g].path = PathPhonesSmartphones]_vars

\* C12: once a category, brand or product has a non-empty slug, no request
\* (rename, move, toggle, field update) changes it.
C12_SlugNeverChanges ==
    [][/\ \A c \in DOMAIN cats :
             cats[c].slug # <<>> => c \in DOMAIN cats' /\ cats'[c].slug = cats[c].slug
       /\ \A b \in DOMAIN brands :
             brands[b].slug # <<>> => b \in DOMAIN brands' /\ brands'[b].slug = brands[b].slug
       /\ \A p \in DOMAIN products :
             products[p].slug # <<>>
                => p \in DOMAIN products' /\ products'[p].slug = products[p].slug]_vars

\* a category, a brand and a product were created as "A" and renamed to "B";
\* the brand was also deactivated
C12_Witness ==
    /\ \E c \in DOMAIN cats : cats[c].name = <<"B">> /\ cats[c].slug = <<"a">>
    /\ \E b \in DOMAIN brands :
          brands[b].name = <<"B">> /\ brands[b].slug = <<"a">> /\ ~brands[b].is_active
    /\ \E p \in DOMAIN products : products[p].name = <<"B">> /\ products[p].slug = <<"a">>

\* base when no slug of used is base, otherwise base-k for the smallest k >= 1
\* such that base-k is not in used
ExpectedSlug(base, used) ==
    IF base \notin used THEN base
    ELSE LET free(k) == (base \o <<"-">> \o Str(k)) \notin used
             k0 == CHOOSE k \in 1..(Cardinality(used) + 1) :
                      free(k) /\ \A j \in 1..(k - 1) : ~free(j)
         IN base \o <<"-">> \o Str(k0)

\* slugs of the rows other than pk, among the categories with this parent and
\* among all rows of a brand or product table
SiblingSlugs(store, pk, parent) ==
    {store[k].slug : k \in {j \in DOMAIN store : j # pk /\ store[j].parent = parent}}
OtherSlugs(store, pk) == {store[k].slug : k \in DOMAIN store \ {pk}}

\* C13: a create, and a successful full save of an entity whose slug is empty,
\* gives it the base slug of its name if no other entity in the scope (same
\* parent for categories, all rows for brands and products) has it, and
\* otherwise base-k for the smallest k >= 1 that no other entity in the scope
\* uses; the entity's own row is not counted.
C13_SlugAllocation ==
    [][/\ \A name \in AllocNameInputs, parent \in Parents :
             (CategoryCreate(name, parent, TRUE) /\ response'.result = "ok")
                => cats'[nextPk].slug =
                      ExpectedSlug(slugify(name), SiblingSlugs(cats, nextPk, parent))
       /\ \A c \in DOMAIN cats : \A name \in AllocNameInputs \cup {cats[c].name},
             parent \in Parents :
             (/\ cats[c].slug = <<>>
              /\ CategoryUpdate(c, name, parent, cats[c].is_active)
              /\ response'.result = "ok")
                => cats'[c].slug = ExpectedSlug(slugify(name), SiblingSlugs(cats, c, parent))
       /\ \A name \in AllocNameInputs :
             (BrandCreate(TRUE, name, TRUE) /\ response'.result = "ok")
                => brands'[nextBrandPk].slug =
                      ExpectedSlug(slugify(name), OtherSlugs(brands, nextBrandPk))
       /\ \A b \in DOMAIN brands : \A name \in AllocNameInputs \cup {brands[b].name} :
             (/\ brands[b].slug = <<>>
              /\ BrandUpdate(TRUE, b, name, brands[b].is_active)
              /\ response'.result = "ok")
                => brands'[b].slug = ExpectedSlug(slugify(name), OtherSlugs(brands, b))
       /\ \A name \in AllocNameInputs :
             (ProductCreateForm(TRUE, name, 1, NoBrand, TRUE) /\ response'.result = "ok")
                => products'[nextProductPk].slug =
                      ExpectedSlug(slugify(name), OtherSlugs(products, nextProductPk))]_vars

\* a fourth row took "a-3" beside "a", "a-1", "a-2" in its scope
C13_Witness ==
    LET a3 == <<"a", "-", "3">>
    IN \/ \E c \in DOMAIN cats :
             cats[c].slug = a3 /\ Cardinality(SiblingSlugs(cats, c, cats[c].parent)) = 3
       \/ \E b \in DOMAIN brands : brands[b].slug = a3
       \/ \E p \in DOMAIN products : products[p].slug = a3

IsPrefix(p, s) == Len(p) <= Len(s) /\ SubSeq(s, 1, Len(p)) = p

\* the update request q is partly applied in store: the category carries the
\* path q wrote, and a descendant q's loop is to rewrite still carries the
\* path under the old prefix that q found it with
PartlyApplied(q, store) ==
    LET c == q.inst.pk
        old == q.loaded[c].path
    IN /\ q.kind = "update" /\ q.pc \in {"cascade", "commit", "done"}
       /\ q.result # "invalid"
       /\ q.inst.path # old
       /\ store[c].path = q.inst.path
       /\ \E i \in 1..Len(q.found) :
             /\ q.found[i].pk \in get_descendants(store, c, FALSE)
             /\ IsPrefix(old \o <<"/">>, q.found[i].path)
             /\ store[q.found[i].pk].path = q.found[i].path

C16_ConcurrentMovesNoCycle ==
    (\A t \in Requests : requests[t].kind = "update")
        => \A c \in DOMAIN cats : c \notin AncestorSet(cats, c)

\* C17: no committed category has the empty path it is inserted with unless
\* its slug is empty, and a create request that ended in an error has left no
\* row behind.
C17_CreateAllOrNothing ==
    /\ \A c \in DOMAIN cats : cats[c].path = <<>> => cats[c].slug = <<>>
    /\ \A t \in Requests :
          LET q == requests[t]
          IN (q.kind = "create" /\ q.pc = "done" /\ q.result = "error")
                => q.inst.pk \notin DOMAIN cats

\* a create request inserted its row and failed on the path write
C17_Witness ==
    \E t \in Requests :
        LET q == requests[t]
        IN /\ q.kind = "create" /\ q.pc = "done" /\ q.result = "error"
           /\ q.inst.pk # 0 /\ q.err = "IntegrityError"

\* ------------------------------------------------------------- C18 to C20
\* the requests a dependency guard stands in front of
GuardedOps ==
    {"soft_delete", "hard_delete", "brand_soft_delete", "brand_hard_delete",
     "product_hard_delete", "variant_hard_delete"}

\* the guard of the request refused it (the refusal of a variant deletion ends
\* in the AttributeError of its redirect)
RefusedByGuard(r) ==
    /\ r.op \in GuardedOps
    /\ \/ r.result = "refused"
       \/ r.op = "variant_hard_delete" /\ r.err = "AttributeError"

\* C18: a deactivate or hard-delete request of a category, brand, product or
\* variant that its guard refuses leaves the stored rows of every table as
\* they were before the request.
C18_RefusedLeavesStoreUnchanged ==
    [][RefusedByGuard(response') => UNCHANGED <<cats, brands, products, variants>>]_vars

\* an inactive product that still has an active variant was refused deletion
C18_Witness ==
    /\ response.op = "product_hard_delete"
    /\ response.result = "refused"
    /\ \E p \in DOMAIN products : ~products[p].is_active /\ HasActiveVariants(variants, p)

\* a product row references brand b
BrandReferenced(prods, b) == \E p \in DOMAIN prods : prods[p].brand = b

\* C19: a brand row leaves the store, whichever delete entry point removed it,
\* only if the brand was inactive and no product referenced it at that moment;
\* and soft_delete_brand deactivates a brand only if no product references it.
C19_BrandRemovedOnlyInactiveUnreferenced ==
    [][/\ \A b \in DOMAIN brands :
             b \notin DOMAIN brands' =>
                 ~brands[b].is_active /\ ~BrandReferenced(products, b)
       /\ response'.op = "brand_soft_delete" =>
             \A b \in DOMAIN brands \cap DOMAIN brands' :
                 brands[b].is_active /\ ~brands'[b].is_active =>
                     ~BrandReferenced(products, b)]_vars

\* C20: a product row leaves the store, whichever delete entry point removed
\* it, only if the product was inactive and had no active variant at that
\* moment; a request that deactivates a product always succeeds.
C20_ProductRemovedOnlyInactiveNoActiveVariant ==
    [][/\ \A p \in DOMAIN products :
             p \notin DOMAIN products' =>
                 ~products[p].is_active /\ ~HasActiveVariants(variants, p)
       /\ response'.op = "product_toggle" =>
             /\ response'.result = "ok"
             /\ \A p \in DOMAIN products :
                    products[p].is_active /\ products'[p] # products[p] =>
                        ~products'[p].is_active]_vars

\* ------------------------------------------------------------- C21 to C30
\* C21: a lookup of a category by path answers with category C exactly when C
\* is active and its path equals the requested string, and with NotFound when
\* no active category has that path.
C21_LookupByPath ==
    response.op = "api_category_detail" =>
        LET b == response.body
            match == {k \in DOMAIN cats : cats[k].is_active /\ cats[k].path = b.path}
        IN /\ \A c \in DOMAIN cats :
                 (b.status = 200 /\ b.view = "category-detail" /\ b.id = c) <=> c \in match
           /\ match = {} => b.status = 404

\* the nodes of a serialized tree, at every depth
RECURSIVE TreeNodes(_, _)
TreeNodes(nodes, depth) ==
    IF depth = 0 \/ nodes = {} THEN nodes
    ELSE nodes \cup TreeNodes(UNION {n.children : n \in nodes}, depth - 1)

\* c and every ancestor of c is active
ActiveChain(store, c) ==
    store[c].is_active /\ \A a \in AncestorSet(store, c) : store[a].is_active

\* C22: the category tree the API answers with contains a category exactly
\* when the category and all its ancestors are active; its top level is the
\* active roots and the children of each node are its active children.
C22_TreeShowsActiveChains ==
    response.op = "api_category_tree" =>
        LET all == TreeNodes(response.body, Cardinality(DOMAIN cats))
        IN /\ \A c \in DOMAIN cats : (\E n \in all : n.id = c) <=> ActiveChain(cats, c)
           /\ {n.id : n \in response.body} =
                 {c \in DOMAIN cats : cats[c].is_active /\ cats[c].parent = NoParent}
           /\ \A n \in all :
                 {ch.id : ch \in n.children} =
                    {c \in DOMAIN cats : cats[c].parent = n.id /\ cats[c].is_active}

\* C23: validation of a variant fails when sale_price >= price and succeeds
\* when a sale price is set below the price, a sale price of 0 included, and
\* then get_price() is the sale price; without a sale price get_price() is
\* the price.
C23_SalePrice ==
    LET b == response.body
    IN /\ response.op = "variant_clean" =>
             /\ (b.sale_price # NoSalePrice /\ b.sale_price[1] >= b.price)
                   => response.result = "invalid"
             /\ (b.sale_price # NoSalePrice /\ b.sale_price[1] < b.price)
                   => response.result = "ok"
       /\ response.op = "variant_get_price" =>
             /\ (b.sale_price # NoSalePrice /\ b.sale_price[1] < b.price)
                   => b.value = b.sale_price[1]
             /\ b.sale_price = NoSalePrice => b.value = b.price

\* the step adds, removes or changes the review k, which is unapproved before
\* and after it, and touches no other review
UnapprovedReviewStep(k) ==
    /\ k \in DOMAIN reviews \cup DOMAIN reviews'
    /\ k \in DOMAIN reviews => ~reviews[k].is_approved
    /\ k \in DOMAIN reviews' => ~reviews'[k].is_approved
    /\ \A j \in (DOMAIN reviews \cup DOMAIN reviews') \ {k} :
          j \in DOMAIN reviews /\ j \in DOMAIN reviews' /\ reviews'[j] = reviews[j]

\* C24: the average rating of a product is the mean of the ratings of its
\* approved reviews, 0 when it has none, and a step that adds, removes or
\* changes an unapproved review leaves every product's average rating as it was.
C24_AverageOfApproved ==
    /\ [](response.op = "average_rating" =>
             LET b == response.body
                 approved == {k \in DOMAIN reviews :
                                 reviews[k].product = b.product /\ reviews[k].is_approved}
             IN IF approved = {} THEN b.value.num = 0 /\ b.value.den = 1
                ELSE b.value.num * Cardinality(approved)
                        = b.value.den * SumRatings(reviews, approved))
    /\ [][\A k \in (RatedProducts \X Reviewers) :
             UnapprovedReviewStep(k) =>
                 \A p \in RatedProducts :
                     average_rating(reviews', p) = average_rating(reviews, p)]_vars

\* the average of a product with an approved 5 and an unapproved 1 was read
\* as 5
C24_Witness ==
    /\ response.op = "average_rating"
    /\ response.body.value = [num |-> 5, den |-> 1]
    /\ \E j, k \in DOMAIN reviews :
          /\ reviews[j].product = response.body.product
          /\ reviews[k].product = response.body.product
          /\ reviews[j].is_approved /\ reviews[j].rating = 5
          /\ ~reviews[k].is_approved /\ reviews[k].rating = 1

\* C25: a variant create or update whose sku another variant uses, whether
\* the form, full_clean or only the unique index of the store detects it,
\* ends with a validation error on the sku field, never with a raw storage
\* error, and writes or changes no variant row; no two rows share a sku.
C25_DuplicateSkuIsFieldError ==
    /\ \A j, k \in DOMAIN variants : j # k => variants[j].sku # variants[k].sku
    /\ \A t \in Requests :
          LET q == requests[t]
          IN (q.pc = "done" /\ q.kind \in {"variant_create", "variant_update"}
                /\ q.result # "ok")
                => /\ q.result = "invalid" /\ q.err = "sku"
                   /\ q.kind = "variant_create" /\ q.inst.pk # 0
                         => q.inst.pk \notin DOMAIN variants
                   /\ q.kind = "variant_update"
                         => \/ variants[q.inst.pk] = q.loaded[q.inst.pk]
                            \/ \E u \in Requests \ {t} :
                                  /\ requests[u].result = "ok"
                                  /\ requests[u].inst.pk = q.inst.pk

\* C26: after a successful set-default request for address X of user U, X is
\* a default address and no other address of U is.
C26_SetDefaultMakesOnlyDefault ==
    (response.op = "address_set_default" /\ response.result = "ok") =>
        /\ addresses[response.body.id].is_default
        /\ \A a \in DOMAIN addresses \ {response.body.id} :
              addresses[a].user = response.body.user => ~addresses[a].is_default

\* a set-default succeeded for a user with two addresses while the other
\* user's address is a default too
C26_Witness ==
    /\ response.op = "address_set_default" /\ response.result = "ok"
    /\ Cardinality({a \in DOMAIN addresses : addresses[a].user = response.body.user}) = 2
    /\ \E a \in DOMAIN addresses :
          addresses[a].user # response.body.user /\ addresses[a].is_default

\* the default addresses of user u
DefaultsOf(u) == {a \in DOMAIN addresses : addresses[a].user = u /\ addresses[a].is_default}

\* C30: in every state any interleaving of address create, address update
\* and set-default requests reaches, each user has at most one default
\* address.
C30_AtMostOneDefault == \A u \in Users : Cardinality(DefaultsOf(u)) <= 1

\* the pks of the instances in a sequence
PksOf(q) == {q[i].pk : i \in 1..Len(q)}

\* C27: in the cascade that follows a change of a category's path, the path of
\* a descendant is written only when the new path of its own parent has been
\* written, and it is that new path followed by the descendant's slug, at
\* every depth of the subtree.
C27_ParentPathWrittenFirst ==
    [][\A t \in Requests :
          (requests[t].pc = "cascade" /\ requests'[t].pc \in {"cascade", "commit"}
              /\ requests'[t] # requests[t])
          => LET q == requests[t]
                 child == Head(q.todo)
                 after == requests'[t].writes @@ cats'
             IN /\ child.parent \notin PksOf(Tail(q.todo))
                /\ child.parent \in DOMAIN q.writes
                /\ q.writes[child.parent].path # q.loaded[child.parent].path
                /\ after[child.parent].path = q.writes[child.parent].path
                /\ after[child.pk].path
                      = q.writes[child.parent].path \o <<"/">> \o after[child.pk].slug]_vars

\* the cascade of a move has rewritten a child and then its grandchild
C27_Witness ==
    \E t \in Requests :
        /\ requests[t].kind = "update" /\ requests[t].pc = "commit"
        /\ \E i, j \in 1..Len(requests[t].found) :
              /\ requests[t].found[j].parent = requests[t].found[i].pk
              /\ requests[t].writes[requests[t].found[j].pk].path
                    # requests[t].found[j].path

\* C28: two toggle requests in a row on one category restore its is_active
\* value, and a toggle changes nothing but the is_active value of the category
\* it is sent for: no other field of that category (slug, parent, path) and
\* no field of any other category.
C28_ToggleReversibleAndLocal ==
    [][\A c \in DOMAIN cats :
          TreeToggle(c)
          => /\ cats' = [cats EXCEPT ![c].is_active = ~@]
             /\ toggle_category_status(cats', c).store[c].is_active
                   = cats[c].is_active]_vars

\* C29: a variant row leaves the store only if the variant was inactive at
\* that moment; and a delete request for an active variant is refused and
\* leaves the variant as it was.
C29_VariantRemovedOnlyInactive ==
    [][/\ \A v \in DOMAIN variants :
             v \notin DOMAIN variants' => ~variants[v].is_active
       /\ \A v \in DOMAIN variants :
             VariantDelete(TRUE, v) /\ variants[v].is_active =>
                 /\ RefusedByGuard(response')
                 /\ v \in DOMAIN variants' /\ variants'[v] = variants[v]]_vars

====
